---- MODULE Spec2Model ----
(***************************************************************************)
(* Provider abstraction and orchestration runtime of groq-code-cli:        *)
(* the ProviderManager (detection, auto-selection, manual switch,          *)
(* failover) over the three adapters GroqProvider, OllamaProvider and      *)
(* LMStudioProvider, and the adapters' cancellable chat() call.            *)
(***************************************************************************)
EXTENDS Integers, Sequences, FiniteSets, TLC

VARIABLES
    activeProvider,   \* ProviderManager.activeProvider: a provider name or "null"
    providerConfigs,  \* ProviderManager.providerConfigs: sequence of {name, enabled, priority}
    groqClient,       \* GroqProvider.client !== null
    groqKey,          \* process.env.GROQ_API_KEY || GroqProvider.apiKey is truthy
    mgrPc,            \* position of the manager's caller: "ready" or "returned"
    last,             \* what the last manager operation did and returned
    behaviour,        \* detection pass: what each adapter's probe calls do
    other,            \* detection pass: one adapter behaving differently in a second run
    detected,         \* detection pass: the outcome of detectProviders() in the two runs
    chat,             \* one chat() call on an adapter: its position, locals and outcome
    abortSignal,      \* the caller's cancellation token passed to chat()
    providers,        \* ProviderManager.providers: the entries {name, id} of the Map
    created,          \* how many instances createProvider(name) has constructed, per name
    handed,           \* registry under observation: the instances getProviderInstance returned
    handler,          \* the InterruptHandler singleton and the process it can end
    listed,           \* per adapter, the last listModels() call and its outcome
    called,           \* one adapter and the last two calls made on it in a row
    found,            \* one findModels(query) call: the query, the models, the result
    switching,        \* two overlapping switch operations of the manager, step by step
    guidance,         \* one failed chat() of Ollama: the error caught and the message thrown
    modelCommand,     \* the /model command: its guard flag and the invocations of its handler
    watcher,          \* the development watcher: its build flag, debounce timer and builds
    session           \* one /session status: the saved session, its age and the two answers

mgrVars == <<activeProvider, providerConfigs, mgrPc, last>>

groqVars == <<groqClient, groqKey>>

detVars == <<behaviour, other, detected>>

chatVars == <<chat, abortSignal>>

regVars == <<providers, created, handed>>

intVars == <<handler>>

listVars == <<listed, called, found>>

toolVars == <<switching, guidance, modelCommand, watcher, session>>

vars == <<activeProvider, providerConfigs, groqClient, groqKey, mgrPc, last,
          behaviour, other, detected, chat, abortSignal, providers, created, handed,
          handler, listed, called, found,
          switching, guidance, modelCommand,
          watcher, session>>

----------------------------------------------------------------------------
(* Bounds *)

\* configured priorities range over 1..MaxPriority (the defaults use 1, 2, 3)
MaxPriority == 3

\* the caller cancels one token at most MaxCancels times
MaxCancels == 2

\* the manager's cleanup() is followed to its MaxCleanups-th call
MaxCleanups == 1

\* interrupt callbacks 1..MaxCallbacks can be registered
MaxCallbacks == 2

\* interrupts (signals and explicit triggers) delivered to one process
MaxSignals == 2

\* the /model command is entered 1..MaxInvocations times
MaxInvocations == 3

\* the watched files change 0..MaxChanges times
MaxChanges == 3

\* a saved session is 0..MaxAge minutes old
MaxAge == 1500

\* a backend reports 0..MaxModels models
MaxModels == 2

\* a model id and a search query have 0..MaxText characters
MaxText == 2

----------------------------------------------------------------------------
(* src/providers/index.ts *)

\* Object.keys(PROVIDERS), in insertion order
getAvailableProviders == <<"groq", "ollama", "lmstudio">>

ProviderName == {getAvailableProviders[i] : i \in 1..Len(getAvailableProviders)}

isValidProvider(name) == name \in ProviderName

----------------------------------------------------------------------------
(* The services behind the adapters.  A World is what one round trip to    *)
(* each service would answer at some instant: the Groq API reachable or    *)
(* not, the Ollama server answering /api/version with 200 or not, the      *)
(* LM Studio server answering /models with a non-empty list ("up"), with   *)
(* an empty list ("empty") or not at all ("down").                         *)

World == [groq : {"up", "down"}, ollama : {"up", "down"}, lmstudio : {"up", "empty", "down"}]

NoStatus == [available |-> FALSE, connected |-> FALSE, modelsLoaded |-> -1]

\* isAvailable() of each adapter
AdapterIsAvailable(p, w, key) ==
    CASE p = "groq" -> key
      [] p = "ollama" -> w.ollama = "up"
      [] p = "lmstudio" -> w.lmstudio \in {"up", "empty"}

\* getStatus() of each adapter; none of them lets an error escape
AdapterGetStatus(p, w, key) ==
    CASE p = "groq" ->
            IF ~key THEN NoStatus
            ELSE IF w.groq = "up"
                 THEN [available |-> TRUE, connected |-> TRUE, modelsLoaded |-> -1]
                 ELSE [available |-> TRUE, connected |-> FALSE, modelsLoaded |-> -1]
      [] p = "ollama" ->
            IF w.ollama = "up"
            THEN [available |-> TRUE, connected |-> TRUE, modelsLoaded |-> -1]
            ELSE NoStatus
      [] p = "lmstudio" ->
            IF w.lmstudio = "up"
            THEN [available |-> TRUE, connected |-> TRUE, modelsLoaded |-> 1]
            ELSE IF w.lmstudio = "empty"
                 THEN [available |-> TRUE, connected |-> TRUE, modelsLoaded |-> 0]
                 ELSE NoStatus

\* listModels() of each adapter: "ok" (a list is returned) or "throw" (ProviderError)
AdapterListModels(p, w, key) ==
    CASE p = "groq" -> IF key /\ w.groq = "up" THEN "ok" ELSE "throw"
      [] p = "ollama" -> IF w.ollama = "up" THEN "ok" ELSE "throw"
      [] p = "lmstudio" -> IF w.lmstudio = "up" THEN "ok" ELSE "throw"

\* initialize() of each adapter: TRUE when it returns, FALSE when it throws
AdapterInitialize(p, w, key) ==
    CASE p = "groq" -> key
      [] p = "ollama" -> AdapterGetStatus("ollama", w, key).connected
      [] p = "lmstudio" ->
            LET status == AdapterGetStatus("lmstudio", w, key)
            IN  status.connected /\ status.modelsLoaded # 0

\* GroqProvider.client after getStatus(): a missing client is created when a key exists
ClientAfterGetStatus(p, client, key) ==
    IF p = "groq" /\ key THEN TRUE ELSE client

\* GroqProvider.client after a successful or failed initialize()
ClientAfterInitialize(p, client, key) ==
    IF p = "groq" /\ key THEN TRUE ELSE client

\* GroqProvider.client after cleanup()
ClientAfterCleanup(p, client) ==
    IF p = "groq" THEN FALSE ELSE client

\* does getStatus() run initialize() on its own adapter (GroqProvider.getStatus, no client yet)
GetStatusInitializes(p, client, key) ==
    p = "groq" /\ key /\ ~client

----------------------------------------------------------------------------
(* ProviderManager.detectProviders *)

\* What the three probe calls on one adapter do during one detection pass.
\* The manager is written against the abstract LLMProvider, so each call may
\* also throw.
StatusValues ==
    {[available |-> a, connected |-> c, modelsLoaded |-> -1] :
        a \in BOOLEAN, c \in BOOLEAN}

ProbeOutcome ==
    [avail : {"true", "false", "throw"},
     statusThrows : BOOLEAN,
     status : StatusValues,
     models : {"ok", "throw"}]

\* the entry pushed by the catch block of the loop body
CatchEntry(name) ==
    [provider |-> name, available |-> FALSE, status |-> NoStatus, models |-> FALSE]

\* the try block of the loop body: threw, or the entry it pushed
TryEntry(name, pr) ==
    IF pr.avail = "throw" \/ pr.statusThrows
    THEN [threw |-> TRUE, entry |-> CatchEntry(name)]
    ELSE [threw |-> FALSE,
          entry |-> [provider |-> name,
                     available |-> (pr.avail = "true"),
                     status |-> pr.status,
                     models |-> (pr.status.connected /\ pr.models = "ok")]]

\* a try block that asks for the status of an available adapter only
ProbeCallsIfAvailable(pr) ==
    <<"isAvailable">>
        \o (IF pr.avail = "true" THEN <<"getStatus">> ELSE <<>>)
        \o (IF pr.avail = "true" /\ ~pr.statusThrows /\ pr.status.connected
            THEN <<"listModels">> ELSE <<>>)

\* the calls that the try block of the loop body makes on the adapter, in order
ProbeCalls(pr) ==
    <<"isAvailable">>
        \o (IF pr.avail # "throw" THEN <<"getStatus">> ELSE <<>>)
        \o (IF pr.avail # "throw" /\ ~pr.statusThrows /\ pr.status.connected
            THEN <<"listModels">> ELSE <<>>)

\* a loop body without its try/catch: the throw leaves the loop and the function
DetectIterationNoCatch(acc, name, pr) ==
    IF acc.raised THEN acc
    ELSE IF TryEntry(name, pr).threw
         THEN [acc EXCEPT !.raised = TRUE]
         ELSE [acc EXCEPT !.results = Append(@, TryEntry(name, pr).entry)]

\* one iteration of the for loop, try and catch
DetectIteration(acc, name, pr) ==
    IF acc.raised THEN acc
    ELSE IF TryEntry(name, pr).threw
         THEN [acc EXCEPT !.results = Append(@, CatchEntry(name))]
         ELSE [acc EXCEPT !.results = Append(@, TryEntry(name, pr).entry)]

RECURSIVE DetectLoop(_, _, _)
DetectLoop(acc, i, probes) ==
    IF i > Len(getAvailableProviders) THEN acc
    ELSE DetectLoop(DetectIteration(acc, getAvailableProviders[i],
                                    probes[getAvailableProviders[i]]),
                    i + 1, probes)

\* detectProviders(): [raised, results]
detectProviders(probes) ==
    DetectLoop([raised |-> FALSE, results |-> <<>>], 1, probes)

\* the probe outcomes of the three real adapters: isAvailable() sees world wA,
\* getStatus() and listModels() see world wS
RealProbes(wA, wS, key) ==
    [p \in ProviderName |->
        [avail |-> IF AdapterIsAvailable(p, wA, key) THEN "true" ELSE "false",
         statusThrows |-> FALSE,
         status |-> AdapterGetStatus(p, wS, key),
         models |-> AdapterListModels(p, wS, key)]]

\* detection.find(d => d.provider === name)
RECURSIVE FindFrom(_, _, _)
FindFrom(detection, name, i) ==
    IF i > Len(detection) THEN CatchEntry("undefined")
    ELSE IF detection[i].provider = name THEN detection[i]
         ELSE FindFrom(detection, name, i + 1)

Find(detection, name) == FindFrom(detection, name, 1)

\* a test that looks at result.available alone
EligibleAvailableOnly(detection, name) ==
    LET result == Find(detection, name)
    IN  result.provider = name /\ result.available

\* result?.available && result.status.connected
Eligible(detection, name) ==
    LET result == Find(detection, name)
    IN  result.provider = name /\ result.available /\ result.status.connected

----------------------------------------------------------------------------
(* ProviderManager: configuration *)

ConfigEntry == [name : ProviderName, enabled : BOOLEAN, priority : 1..MaxPriority]

\* initializeDefaultConfigs() fixes the order of the entries; the flags and
\* priorities are whatever the settings file and updateProviderConfig made them
initializeDefaultConfigs ==
    <<[name |-> "groq", enabled |-> TRUE, priority |-> 1],
      [name |-> "ollama", enabled |-> TRUE, priority |-> 2],
      [name |-> "lmstudio", enabled |-> TRUE, priority |-> 3]>>

RECURSIVE FilterConfigs(_, _, _)
\* a filter that keeps the disabled entries
FilterConfigsKeepDisabled(configs, excluded, i) ==
    SelectSeq(configs, LAMBDA c : c.name # excluded)

\* [...configs].filter(config => config.enabled && config.name !== excluded)
FilterConfigs(configs, excluded, i) ==
    IF i > Len(configs) THEN <<>>
    ELSE IF configs[i].enabled /\ configs[i].name # excluded
         THEN <<configs[i]>> \o FilterConfigs(configs, excluded, i + 1)
         ELSE FilterConfigs(configs, excluded, i + 1)

RECURSIVE InsertByPriority(_, _)
\* insert c behind every entry whose priority is not larger (a stable sort step)
InsertByPriority(sorted, c) ==
    IF sorted = <<>> THEN <<c>>
    ELSE IF Head(sorted).priority - c.priority > 0
         THEN <<c>> \o sorted
         ELSE <<Head(sorted)>> \o InsertByPriority(Tail(sorted), c)

RECURSIVE SortFrom(_, _, _)
SortFrom(configs, i, sorted) ==
    IF i > Len(configs) THEN sorted
    ELSE SortFrom(configs, i + 1, InsertByPriority(sorted, configs[i]))

\* a sort that puts entries of equal priority in the order of the backend list
SortByPriorityThenList(configs) ==
    LET named(n) == SelectSeq(configs, LAMBDA c : c.name = n)
    IN  SortFrom(named("groq") \o named("ollama") \o named("lmstudio"), 1, <<>>)

\* .sort((a, b) => a.priority - b.priority), Array.prototype.sort being stable
SortByPriority(configs) == SortFrom(configs, 1, <<>>)

\* the candidate list of autoSelectProvider()
sortedConfigs(configs) == SortByPriority(FilterConfigs(configs, "undefined", 1))

\* the candidate list of a failover that does not exclude the failed backend
failoverConfigsKeepCurrent(configs, currentName) ==
    SortByPriority(FilterConfigs(configs, "undefined", 1))

\* the candidate list of failover(): the backend that was active is left out
failoverConfigs(configs, currentName) ==
    SortByPriority(FilterConfigs(configs, currentName, 1))

----------------------------------------------------------------------------
(* ProviderManager: selection.  A manager state st is                       *)
(* [active, client, calls, threw]: activeProvider, GroqProvider.client, the *)
(* adapter calls made so far by the running operation, and whether the      *)
(* last call made by the manager threw.                                     *)

\* one adapter call: on which backend, which method, made by the manager or by
\* the adapter itself, and how it ended
Call(p, m, by, r) == [p |-> p, m |-> m, by |-> by, r |-> r]

Outcome(ok) == IF ok THEN "ok" ELSE "throw"

\* a setActiveProvider() that fetches the status and switches without looking at it
setActiveProviderNoStatusCheck(st, name, wR, wI, key) ==
    IF ~isValidProvider(name) THEN [st EXCEPT !.threw = TRUE]
    ELSE
    LET status == AdapterGetStatus(name, wR, key)
        client1 == ClientAfterGetStatus(name, st.client, key)
        calls1 == st.calls
                    \o (IF GetStatusInitializes(name, st.client, key)
                        THEN <<Call(name, "initialize", "adapter", "ok")>> ELSE <<>>)
                    \o <<Call(name, "getStatus", "manager",
                               IF status.connected THEN "connected" ELSE "disconnected")>>
        doCleanup == st.active # "null" /\ st.active # name
        client2 == IF doCleanup THEN ClientAfterCleanup(st.active, client1) ELSE client1
        calls2 == calls1 \o (IF doCleanup
                             THEN <<Call(st.active, "cleanup", "manager", "ok")>>
                             ELSE <<>>)
        initOk == AdapterInitialize(name, wI, key)
    IN  [active |-> IF initOk THEN name ELSE st.active,
         client |-> ClientAfterInitialize(name, client2, key),
         calls |-> calls2 \o <<Call(name, "initialize", "manager", Outcome(initOk))>>,
         threw |-> ~initOk]

\* setActiveProvider(name); wR is the world seen by its getStatus(), wI the
\* world seen by the initialize() that follows
setActiveProvider(st, name, wR, wI, key) ==
    IF ~isValidProvider(name) THEN [st EXCEPT !.threw = TRUE]
    ELSE
    LET status == AdapterGetStatus(name, wR, key)
        client1 == ClientAfterGetStatus(name, st.client, key)
        calls1 == st.calls
                    \o (IF GetStatusInitializes(name, st.client, key)
                        THEN <<Call(name, "initialize", "adapter", "ok")>> ELSE <<>>)
                    \o <<Call(name, "getStatus", "manager",
                               IF status.connected THEN "connected" ELSE "disconnected")>>
    IN  IF ~status.connected
        THEN [active |-> st.active, client |-> client1, calls |-> calls1, threw |-> TRUE]
        ELSE
        LET doCleanup == st.active # "null" /\ st.active # name
            client2 == IF doCleanup THEN ClientAfterCleanup(st.active, client1) ELSE client1
            calls2 == calls1 \o (IF doCleanup
                                 THEN <<Call(st.active, "cleanup", "manager", "ok")>>
                                 ELSE <<>>)
            initOk == AdapterInitialize(name, wI, key)
        IN  [active |-> IF initOk THEN name ELSE st.active,
             client |-> ClientAfterInitialize(name, client2, key),
             calls |-> calls2 \o <<Call(name, "initialize", "manager", Outcome(initOk))>>,
             threw |-> ~initOk]

\* a loop without the try/catch around initialize(): the first candidate whose
\* initialize() throws ends the selection
AutoSelectLoopNoTry(st, cands, i, detection, wI, key) ==
    LET first == {j \in i..Len(cands) : Eligible(detection, cands[j].name)}
    IN  IF first = {} THEN [st EXCEPT !.threw = TRUE]
        ELSE LET name == cands[CHOOSE j \in first : \A k \in first : j <= k].name
                 initOk == AdapterInitialize(name, wI, key)
             IN  [active |-> IF initOk THEN name ELSE st.active,
                  client |-> ClientAfterInitialize(name, st.client, key),
                  calls |-> st.calls \o <<Call(name, "initialize", "manager", Outcome(initOk))>>,
                  threw |-> ~initOk]

RECURSIVE AutoSelectLoop(_, _, _, _, _, _)
\* the for loop of autoSelectProvider(); threw = TRUE stands for "return null"
AutoSelectLoop(st, cands, i, detection, wI, key) ==
    IF i > Len(cands) THEN [st EXCEPT !.threw = TRUE]
    ELSE IF Eligible(detection, cands[i].name)
         THEN LET name == cands[i].name
                  initOk == AdapterInitialize(name, wI, key)
                  st1 == [st EXCEPT !.client = ClientAfterInitialize(name, @, key),
                                    !.calls = @ \o <<Call(name, "initialize", "manager",
                                                             Outcome(initOk))>>]
              IN  IF initOk THEN [st1 EXCEPT !.active = name, !.threw = FALSE]
                  ELSE AutoSelectLoop(st1, cands, i + 1, detection, wI, key)
         ELSE AutoSelectLoop(st, cands, i + 1, detection, wI, key)

\* a loop that gives up when its first eligible candidate cannot be made active
FailoverLoopFirstOnly(st, cands, i, detection, wR, wI, key) ==
    LET first == {j \in i..Len(cands) : Eligible(detection, cands[j].name)}
    IN  IF first = {} THEN [st EXCEPT !.threw = TRUE]
        ELSE setActiveProvider(st, cands[CHOOSE j \in first : \A k \in first : j <= k].name,
                               wR, wI, key)

RECURSIVE FailoverLoop(_, _, _, _, _, _, _)
\* the for loop of failover(); threw = TRUE stands for "return null"
FailoverLoop(st, cands, i, detection, wR, wI, key) ==
    IF i > Len(cands) THEN [st EXCEPT !.threw = TRUE]
    ELSE IF Eligible(detection, cands[i].name)
         THEN LET r == setActiveProvider(st, cands[i].name, wR, wI, key)
              IN  IF ~r.threw THEN r
                  ELSE FailoverLoop(r, cands, i + 1, detection, wR, wI, key)
         ELSE FailoverLoop(st, cands, i + 1, detection, wR, wI, key)

----------------------------------------------------------------------------
(* ProviderManager: the registry of adapter instances.  An instance is      *)
(* known by its name and the number id of its construction: the k-th        *)
(* createProvider(name) makes the instance {name, k}.  A registry state reg *)
(* is [providers, created, ret, sinceClear, ever]: the Map, the             *)
(* constructions so far, the id returned by the last call, and per name the *)
(* ids returned since the last clear() and since the manager exists.        *)

\* the entries of the Map under key name
Lookup(entries, name) == {e \in entries : e.name = name}

\* a get-or-create that constructs an instance at every call
getProviderInstanceNoMemo(reg, name) ==
    LET id == reg.created[name] + 1
    IN  [providers |-> (reg.providers \ Lookup(reg.providers, name))
                            \cup {[name |-> name, id |-> id]},
         created |-> [reg.created EXCEPT ![name] = id],
         ret |-> id,
         sinceClear |-> [reg.sinceClear EXCEPT ![name] = @ \cup {id}],
         ever |-> [reg.ever EXCEPT ![name] = @ \cup {id}]]

\* getProviderInstance(name): construct and register when the Map has no
\* entry for name, then return the entry of the Map
getProviderInstance(reg, name) ==
    LET id == IF Lookup(reg.providers, name) = {}
              THEN reg.created[name] + 1
              ELSE (CHOOSE e \in Lookup(reg.providers, name) : TRUE).id
    IN  [providers |-> IF Lookup(reg.providers, name) = {}
                       THEN reg.providers \cup {[name |-> name, id |-> id]}
                       ELSE reg.providers,
         created |-> IF Lookup(reg.providers, name) = {}
                     THEN [reg.created EXCEPT ![name] = id]
                     ELSE reg.created,
         ret |-> id,
         sinceClear |-> [reg.sinceClear EXCEPT ![name] = @ \cup {id}],
         ever |-> [reg.ever EXCEPT ![name] = @ \cup {id}]]

RECURSIVE GetInstances(_, _, _)
\* the getProviderInstance() calls of one operation, in the order it makes them
GetInstances(reg, names, i) ==
    IF i > Len(names) THEN reg
    ELSE GetInstances(getProviderInstance(reg, names[i]), names, i + 1)

\* the names an operation asks the registry for: setActiveProvider(name) and
\* getProvider(name) ask for one, healthCheck() for none, the operations that
\* run detectProviders() for every known name
Requested(op, arg) ==
    IF op \in {"setActiveProvider", "getProvider"}
    THEN (IF isValidProvider(arg) THEN <<arg>> ELSE <<>>)
    ELSE IF op = "healthCheck" THEN <<>>
         ELSE getAvailableProviders

NoInstances == [n \in ProviderName |-> {}]

\* the registry is not under observation
NoHanded == [on |-> FALSE, cleanups |-> 0, sinceClear |-> NoInstances, ever |-> NoInstances]

\* the registry part of an operation that asks for the instances `names`
Register(names) ==
    IF ~handed.on THEN UNCHANGED regVars
    ELSE LET reg == GetInstances([providers |-> providers, created |-> created, ret |-> 0,
                                  sinceClear |-> handed.sinceClear, ever |-> handed.ever],
                                 names, 1)
         IN  /\ providers' = reg.providers
             /\ created' = reg.created
             /\ handed' = [handed EXCEPT !.sinceClear = reg.sinceClear, !.ever = reg.ever]

\* this.providers.clear()
Clear ==
    IF ~handed.on THEN UNCHANGED regVars
    ELSE /\ providers' = {}
         /\ created' = created
         /\ handed' = [handed EXCEPT !.cleanups = @ + 1, !.sinceClear = NoInstances]

----------------------------------------------------------------------------
(* ProviderManager: the operations as steps of the manager's caller.  An    *)
(* operation runs from "ready", leaves in `last` what it did and returned,  *)
(* and the caller takes the result and is ready again.                      *)

NoLast == [op |-> "none", arg |-> "none", prev |-> "null", ret |-> "none",
           detection |-> <<>>, calls |-> <<>>]

\* worlds that isAvailable() can tell apart
AvailWorld == {w \in World : w.groq = "up" /\ w.lmstudio # "empty"}

\* worlds that initialize() can tell apart
InitWorld == {w \in World : w.groq = "up" /\ w.lmstudio # "down"}

\* the state of a freshly constructed ProviderManager
MgrInit ==
    /\ activeProvider = "null"
    /\ providerConfigs = initializeDefaultConfigs
    /\ mgrPc = "ready"
    /\ last = NoLast

\* a freshly constructed GroqProvider, with or without a key in the environment
GroqInit ==
    /\ groqClient = FALSE
    /\ groqKey \in BOOLEAN

\* no detection pass under observation
DetIdle ==
    /\ behaviour = <<>>
    /\ other = <<>>
    /\ detected = <<>>

\* no chat() call under observation
ChatIdle ==
    /\ chat = <<>>
    /\ abortSignal = <<>>

\* the registry of a freshly constructed ProviderManager, not under observation
RegIdle ==
    /\ providers = {}
    /\ created = [n \in ProviderName |-> 0]
    /\ handed = NoHanded

\* no InterruptHandler and no listModels() call under observation
IntIdle == handler = <<>> /\ listed = <<>> /\ called = <<>> /\ found = <<>>
             /\ switching = <<>> /\ guidance = <<>> /\ modelCommand = <<>> /\ watcher = <<>> /\ session = <<>>

Init == MgrInit /\ GroqInit /\ DetIdle /\ ChatIdle /\ RegIdle /\ IntIdle

Start(st) == [active |-> st.active, client |-> st.client, calls |-> <<>>, threw |-> FALSE]

Here == [active |-> activeProvider, client |-> groqClient]

Finish(op, arg, r, ret, detection) ==
    /\ activeProvider' = r.active
    /\ groqClient' = r.client
    /\ mgrPc' = "returned"
    /\ last' = [op |-> op, arg |-> arg, prev |-> activeProvider, ret |-> ret,
                detection |-> detection, calls |-> r.calls]
    /\ Register(Requested(op, arg))
    /\ UNCHANGED <<providerConfigs, groqKey, detVars, chatVars, intVars, listVars, toolVars>>

\* the worlds of W that differ only in the services of the backends in `read`:
\* a round trip that no call makes has no answer to choose
ReadWorlds(W, read) == {w \in W : \A p \in ProviderName \ read : w[p] = "up"}

\* the backends of the candidate list that the loop can try
Tried(cands, detection) ==
    {cands[i].name : i \in {j \in 1..Len(cands) : Eligible(detection, cands[j].name)}}

Connected(names, w, key) == {p \in names : AdapterGetStatus(p, w, key).connected}

\* await manager.setActiveProvider(name)
SetActiveProvider ==
    /\ mgrPc = "ready"
    /\ \E name \in ProviderName \cup {"openai"} :
       \E wR \in ReadWorlds(World, {name}) :
       \E wI \in ReadWorlds(InitWorld, Connected({name} \cap ProviderName, wR, groqKey)) :
       \E r \in {setActiveProvider(Start(Here), name, wR, wI, groqKey)} :
          Finish("setActiveProvider", name, r,
                 IF r.threw THEN "throw" ELSE "void", <<>>)

\* await manager.autoSelectProvider()
AutoSelectProvider ==
    /\ mgrPc = "ready"
    /\ \E wA \in AvailWorld, wS \in World :
       \E detection \in {detectProviders(RealProbes(wA, wS, groqKey)).results} :
       \E cands \in {sortedConfigs(providerConfigs)} :
          LET st == [Start(Here) EXCEPT
                        !.client = ClientAfterGetStatus("groq", @, groqKey)]
          IN  \E wI \in ReadWorlds(InitWorld, Tried(cands, detection)) :
              \E r \in {AutoSelectLoop(st, cands, 1, detection, wI, groqKey)} :
                 Finish("autoSelectProvider", "none", r,
                        IF r.threw THEN "null" ELSE r.active, detection)

\* await manager.failover()
Failover ==
    /\ mgrPc = "ready"
    /\ \E wA \in AvailWorld, wS \in World :
       \E detection \in {detectProviders(RealProbes(wA, wS, groqKey)).results} :
          LET currentName == IF activeProvider = "null" THEN "undefined"
                             ELSE activeProvider
              st0 == IF activeProvider = "null" THEN Start(Here)
                     ELSE [active |-> "null",
                           client |-> ClientAfterCleanup(activeProvider, groqClient),
                           calls |-> <<Call(activeProvider, "cleanup", "manager", "ok")>>,
                           threw |-> FALSE]
              st1 == [st0 EXCEPT !.client = ClientAfterGetStatus("groq", @, groqKey)]
          IN  \E cands \in {failoverConfigs(providerConfigs, currentName)} :
              \E tried \in {Tried(cands, detection)} :
              \E wR \in ReadWorlds(World, tried) :
              \E wI \in ReadWorlds(InitWorld, Connected(tried, wR, groqKey)) :
              \E r \in {FailoverLoop(st1, cands, 1, detection, wR, wI, groqKey)} :
                 Finish("failover", "none", r,
                        IF r.threw THEN "null" ELSE r.active, detection)

\* await manager.cleanup(): every registered adapter is cleaned up and the
\* registry is emptied; a key held by the GroqProvider instance goes with the
\* instance, a key in the environment stays
ManagerCleanup ==
    /\ mgrPc = "ready"
    /\ handed.cleanups < MaxCleanups
    /\ activeProvider' = "null"
    /\ groqClient' = FALSE
    /\ groqKey' \in {groqKey, FALSE}
    /\ mgrPc' = "returned"
    /\ last' = [NoLast EXCEPT !.op = "cleanup", !.prev = activeProvider, !.ret = "void"]
    /\ Clear
    /\ UNCHANGED <<providerConfigs, detVars, chatVars, intVars, listVars, toolVars>>

RECURSIVE IndexOfFrom(_, _, _)
\* providerConfigs.findIndex(config => config.name === name), 0 for -1
IndexOfFrom(configs, name, i) ==
    IF i > Len(configs) THEN 0
    ELSE IF configs[i].name = name THEN i
         ELSE IndexOfFrom(configs, name, i + 1)

\* the merge done by updateProviderConfig(name, updates)
updateProviderConfig(configs, name, field, value) ==
    LET index == IndexOfFrom(configs, name, 1)
        base == IF index > 0 THEN configs[index]
                ELSE [name |-> name, enabled |-> TRUE, priority |-> Len(configs) + 1]
        merged == IF field = "enabled" THEN [base EXCEPT !.enabled = value]
                  ELSE [base EXCEPT !.priority = value]
    IN  IF index > 0 THEN [configs EXCEPT ![index] = merged]
        ELSE Append(configs, merged)

\* await manager.updateProviderConfig(name, {enabled}) or (name, {priority})
UpdateProviderConfig ==
    /\ mgrPc = "ready"
    /\ \E name \in ProviderName :
          \/ \E b \in BOOLEAN :
                providerConfigs' = updateProviderConfig(providerConfigs, name, "enabled", b)
          \/ \E k \in 1..MaxPriority :
                providerConfigs' = updateProviderConfig(providerConfigs, name, "priority", k)
    /\ providerConfigs' # providerConfigs
    /\ UNCHANGED <<activeProvider, groqClient, groqKey, mgrPc, last,
                   detVars, chatVars, regVars, intVars, listVars, toolVars>>

\* GroqProvider.setApiKey(key)
SetApiKey ==
    /\ mgrPc = "ready"
    /\ groqKey' = TRUE
    /\ groqClient' = FALSE
    /\ <<groqKey, groqClient>> # <<TRUE, FALSE>>
    /\ UNCHANGED <<activeProvider, providerConfigs, mgrPc, last,
                   detVars, chatVars, regVars, intVars, listVars, toolVars>>

\* GroqProvider.clearApiKey(), with no GROQ_API_KEY in the environment
ClearApiKey ==
    /\ mgrPc = "ready"
    /\ groqKey
    /\ groqKey' = FALSE
    /\ groqClient' = FALSE
    /\ UNCHANGED <<activeProvider, providerConfigs, mgrPc, last,
                   detVars, chatVars, regVars, intVars, listVars, toolVars>>

\* the caller has taken the result of the operation
Resume ==
    /\ mgrPc = "returned"
    /\ mgrPc' = "ready"
    /\ last' = NoLast
    /\ UNCHANGED <<activeProvider, providerConfigs, groqClient, groqKey,
                   detVars, chatVars, regVars, intVars, listVars, toolVars>>

Next ==
    \/ SetActiveProvider
    \/ AutoSelectProvider
    \/ Failover
    \/ ManagerCleanup
    \/ UpdateProviderConfig
    \/ SetApiKey
    \/ ClearApiKey
    \/ Resume

Spec == Init /\ [][Next]_vars

----------------------------------------------------------------------------
(* Selection and failover *)

ConfigOf(name) == providerConfigs[IndexOfFrom(providerConfigs, name, 1)]

HasCall(m, by) == \E i \in 1..Len(last.calls) : last.calls[i].m = m /\ last.calls[i].by = by

CallResult(p, m, r) ==
    \E i \in 1..Len(last.calls) :
        last.calls[i].p = p /\ last.calls[i].m = m /\ last.calls[i].by = "manager"
            /\ last.calls[i].r = r

\* C1: a failover() that starts with backend X active does not return X and
\* does not leave X active, whatever its detection pass reports about X.
C1_FailoverExcludesFailed ==
    (last.op = "failover" /\ last.prev # "null")
        => (last.ret # last.prev /\ activeProvider # last.prev)

\* a failover from an enabled, top-priority backend that the detection pass
\* still reports available and connected
C1_Witness ==
    /\ last.op = "failover"
    /\ last.prev # "null"
    /\ Eligible(last.detection, last.prev)
    /\ ConfigOf(last.prev).enabled
    /\ \A i \in 1..Len(providerConfigs) :
          ConfigOf(last.prev).priority <= providerConfigs[i].priority
    /\ last.ret \in ProviderName

\* the getStatus() made by setActiveProvider reported connected = false
StatusDisconnected ==
    /\ last.op = "setActiveProvider"
    /\ CallResult(last.arg, "getStatus", "disconnected")

\* C2 as stated: setActiveProvider(name) on a backend whose getStatus() reports
\* connected = false fails, keeps the active backend, and neither cleanup() nor
\* initialize() has been invoked.
C2_Original ==
    StatusDisconnected
        => /\ last.ret = "throw"
           /\ activeProvider = last.prev
           /\ \A i \in 1..Len(last.calls) : last.calls[i].m \notin {"cleanup", "initialize"}

\* C2 amended: setActiveProvider(name) on a backend whose getStatus() reports
\* connected = false fails, keeps the active backend, and setActiveProvider
\* itself calls neither cleanup() nor initialize(); the only initialize() that
\* can run is the one GroqProvider.getStatus() makes on its own adapter.
C2_DisconnectedLeavesActive ==
    StatusDisconnected
        => /\ last.ret = "throw"
           /\ activeProvider = last.prev
           /\ ~HasCall("cleanup", "manager")
           /\ ~HasCall("initialize", "manager")
           /\ \A i \in 1..Len(last.calls) :
                 last.calls[i].m = "initialize" => last.calls[i].p = "groq"

\* a failed switch away from another backend that was active
C2_Witness ==
    /\ StatusDisconnected
    /\ last.prev \in ProviderName
    /\ last.prev # last.arg

\* enabled backends whose detection entry has status.connected = true
ConnectedEnabled ==
    {n \in ProviderName :
        /\ IndexOfFrom(providerConfigs, n, 1) > 0
        /\ ConfigOf(n).enabled
        /\ Find(last.detection, n).status.connected}

\* C3 as stated: autoSelectProvider() selects the enabled backend with the
\* smallest priority number among those whose detection result has
\* connected = true, and makes it active.
C3_Original ==
    (last.op = "autoSelectProvider" /\ ConnectedEnabled # {})
        => /\ last.ret \in ConnectedEnabled
           /\ \A n \in ConnectedEnabled : ConfigOf(last.ret).priority <= ConfigOf(n).priority
           /\ activeProvider = last.ret

\* candidate i of the sorted list was passed over: not available and connected
\* in the detection result, or its initialize() threw
PassedOver(cands, i) ==
    \/ ~Eligible(last.detection, cands[i].name)
    \/ CallResult(cands[i].name, "initialize", "throw")

\* C3 amended: autoSelectProvider() selects the first backend, in ascending
\* priority order of the enabled entries (configuration order among equal
\* priorities), whose detection result has available = true and
\* connected = true and whose initialize() succeeds, and makes it active; when
\* there is none it returns null and leaves the active backend as it was.
C3_AutoSelectFirstUsable ==
    last.op = "autoSelectProvider"
        => LET cands == sortedConfigs(providerConfigs)
           IN  \/ /\ last.ret = "null"
                  /\ activeProvider = last.prev
                  /\ \A i \in 1..Len(cands) : PassedOver(cands, i)
               \/ \E i \in 1..Len(cands) :
                     /\ last.ret = cands[i].name
                     /\ activeProvider = last.ret
                     /\ Eligible(last.detection, last.ret)
                     /\ CallResult(last.ret, "initialize", "ok")
                     /\ \A j \in 1..(i - 1) :
                           /\ cands[j].priority <= cands[i].priority
                           /\ PassedOver(cands, j)

\* the spec's example: priorities 1, 2, 3, groq disconnected, both local
\* backends connected: ollama is selected
C3_Witness ==
    /\ last.op = "autoSelectProvider"
    /\ providerConfigs = initializeDefaultConfigs
    /\ ~Find(last.detection, "groq").status.connected
    /\ Eligible(last.detection, "ollama")
    /\ Eligible(last.detection, "lmstudio")
    /\ last.ret = "ollama"

\* C12: a set-active, auto-select or failover call that starts with a backend
\* active ends with a backend active, whether it succeeds or fails.
C12_StaysActive ==
    (last.op \in {"setActiveProvider", "autoSelectProvider", "failover"}
        /\ last.prev # "null")
        => activeProvider # "null"

IsEnabled(name) == IndexOfFrom(providerConfigs, name, 1) > 0 /\ ConfigOf(name).enabled

\* what a setActiveProvider(name) made now would do, its getStatus() seeing
\* world wR and its initialize() world wI
SetActiveNow(name, wR, wI) == setActiveProvider(Start(Here), name, wR, wI, groqKey)

\* what an autoSelectProvider() made now would do, the detection pass seeing
\* worlds wA and wS and the initialize() calls world wI
AutoSelectNow(wA, wS, wI) ==
    AutoSelectLoop([Start(Here) EXCEPT !.client = ClientAfterGetStatus("groq", @, groqKey)],
                   sortedConfigs(providerConfigs), 1,
                   detectProviders(RealProbes(wA, wS, groqKey)).results, wI, groqKey)

\* the enabled backends that are connected in world wS and whose initialize()
\* succeeds in world wI
ConnectedUsable(wS, wI) ==
    {n \in ProviderName :
        /\ IsEnabled(n)
        /\ AdapterGetStatus(n, wS, groqKey).connected
        /\ AdapterInitialize(n, wI, groqKey)}

\* those of them that isAvailable() reports available in world wA
DetectedUsable(wA, wS, wI) ==
    {n \in ConnectedUsable(wS, wI) : AdapterIsAvailable(n, wA, groqKey)}

\* a setActiveProvider(name) made now succeeds whenever the backend is
\* connected and able to initialize
SetActiveRetryable ==
    \A name \in ProviderName :
    \A wR \in ReadWorlds(World, {name}), wI \in ReadWorlds(InitWorld, {name}) :
        (AdapterGetStatus(name, wR, groqKey).connected
            /\ AdapterInitialize(name, wI, groqKey))
            => /\ ~SetActiveNow(name, wR, wI).threw
               /\ SetActiveNow(name, wR, wI).active = name

C14_NoneConnectedReturnsNull ==
    (last.op = "autoSelectProvider" /\ ConnectedEnabled = {})
        => /\ last.ret = "null"
           /\ activeProvider = last.prev

\* such a call made while a backend is active and every backend is enabled,
\* one of them reported available
C14_Witness ==
    /\ last.op = "autoSelectProvider"
    /\ ConnectedEnabled = {}
    /\ last.prev \in ProviderName
    /\ \A n \in ProviderName : IsEnabled(n)
    /\ \E n \in ProviderName : Find(last.detection, n).available

\* C23 as stated: a failover() that succeeds has made active the enabled
\* backend with the smallest priority number among the connected backends
\* other than the one that was active.
C23_Original ==
    (last.op = "failover" /\ last.ret # "null")
        => /\ last.ret \in (ConnectedEnabled \ {last.prev})
           /\ \A n \in (ConnectedEnabled \ {last.prev}) : ConfigOf(last.ret).priority <= ConfigOf(n).priority
           /\ activeProvider = last.ret

\* candidate i of the failover list was passed over: not available and
\* connected in the detection result, or reported disconnected by the
\* getStatus() of setActiveProvider(), or its initialize() threw
FailoverPassedOver(cands, i) ==
    \/ PassedOver(cands, i)
    \/ CallResult(cands[i].name, "getStatus", "disconnected")

\* C23 amended: a failover() that succeeds has made active the first backend,
\* in ascending priority order of the enabled entries other than the one that
\* was active, whose detection result has available = true and
\* connected = true, whose getStatus() in setActiveProvider() reports
\* connected and whose initialize() succeeds; when there is none, failover()
\* returns null and no backend is active.
C23_FailoverFirstUsable ==
    last.op = "failover"
        => LET cands == failoverConfigs(providerConfigs,
                                        IF last.prev = "null" THEN "undefined"
                                        ELSE last.prev)
           IN  \/ /\ last.ret = "null"
                  /\ activeProvider = "null"
                  /\ \A i \in 1..Len(cands) : FailoverPassedOver(cands, i)
               \/ \E i \in 1..Len(cands) :
                     /\ last.ret = cands[i].name
                     /\ activeProvider = last.ret
                     /\ Eligible(last.detection, last.ret)
                     /\ CallResult(last.ret, "getStatus", "connected")
                     /\ CallResult(last.ret, "initialize", "ok")
                     /\ \A j \in 1..(i - 1) :
                           /\ cands[j].priority <= cands[i].priority
                           /\ FailoverPassedOver(cands, j)

\* a failover from the cloud backend with both local backends enabled and
\* reported connected: LM Studio has no model loaded, its initialize() throws,
\* and Ollama, which comes after it, is made active
C23_Witness ==
    /\ last.op = "failover"
    /\ last.prev = "groq"
    /\ (ConnectedEnabled \ {last.prev}) = {"ollama", "lmstudio"}
    /\ ConfigOf("lmstudio").priority < ConfigOf("ollama").priority
    /\ CallResult("lmstudio", "initialize", "throw")
    /\ last.ret = "ollama"

\* C30: a setActiveProvider(name) that fails, for whatever reason, has not
\* called cleanup() on the adapter that was active, and that adapter is still
\* the active backend.
C30_FailedSwitchKeepsPrevious ==
    (last.op = "setActiveProvider" /\ last.ret = "throw")
        => /\ ~HasCall("cleanup", "manager")
           /\ activeProvider = last.prev

\* C31: a set-active, auto-select or failover that has changed the active
\* backend from A to another backend has called cleanup() on A, and one that
\* has made the backend active that was active has called no cleanup() on it.
C31_CleanupBeforeSwitch ==
    (last.op \in {"setActiveProvider", "autoSelectProvider", "failover"}
            /\ last.prev # "null" /\ activeProvider # "null")
        => IF activeProvider # last.prev
           THEN CallResult(last.prev, "cleanup", "ok")
           ELSE ~HasCall("cleanup", "manager")

----------------------------------------------------------------------------
(* The manager with a configuration loaded from the settings file.  The     *)
(* file holds an array whose entries name each backend at most once, in any *)
(* order, possibly with an entry for a name that is no backend, or no array *)
(* at all.                                                                  *)

SavedConfigs ==
    {saved \in UNION {[1..n -> ConfigEntry] : n \in 0..Len(getAvailableProviders)} :
        \A i, j \in 1..Len(saved) : saved[i].name = saved[j].name => i = j}

\* loadConfig(): the saved entries with a valid name replace the list, in the
\* order in which they were saved
loadConfig(configs, isArray, savedConfigs) ==
    IF ~isArray THEN configs
    ELSE SelectSeq(savedConfigs, LAMBDA config : isValidProvider(config.name))

\* await manager.loadConfig(), made once, on the manager as constructed
LoadConfig ==
    /\ mgrPc = "ready"
    /\ activeProvider = "null"
    /\ providerConfigs = initializeDefaultConfigs
    /\ \E saved \in SavedConfigs, isArray \in BOOLEAN, foreign \in BOOLEAN :
          providerConfigs' =
              loadConfig(providerConfigs, isArray,
                         IF foreign
                         THEN <<[name |-> "openai", enabled |-> TRUE, priority |-> 1]>>
                                  \o saved
                         ELSE saved)
    /\ providerConfigs' # providerConfigs
    /\ UNCHANGED <<activeProvider, groqClient, groqKey, mgrPc, last,
                   detVars, chatVars, regVars, intVars, listVars, toolVars>>

LoadNext ==
    \/ LoadConfig
    \/ AutoSelectProvider
    \/ Failover
    \/ Resume

LoadSpec == Init /\ [][LoadNext]_vars

\* the backends that the selection could have taken instead of the one it
\* returned: enabled, reported available and connected, of the same priority,
\* not the backend a failover moves away from, and not tried and found failing
Rivals ==
    {n \in ProviderName \ {last.ret} :
        /\ IsEnabled(n)
        /\ Eligible(last.detection, n)
        /\ ConfigOf(n).priority = ConfigOf(last.ret).priority
        /\ last.op = "failover" => n # last.prev
        /\ ~CallResult(n, "initialize", "throw")
        /\ ~CallResult(n, "getStatus", "disconnected")}

\* C24 as stated: the backend that auto-select or failover has made active
\* comes before every rival of equal priority in the fixed backend list.
C24_Original ==
    (last.op \in {"autoSelectProvider", "failover"} /\ last.ret \in ProviderName)
        => LET place(name) == CHOOSE i \in 1..Len(getAvailableProviders) :
                                  getAvailableProviders[i] = name
           IN  \A n \in Rivals : place(last.ret) < place(n)

\* C24 amended: the backend that auto-select or failover has made active
\* comes before every rival of equal priority in the current configuration
\* list.
C24_TieByConfigOrder ==
    (last.op \in {"autoSelectProvider", "failover"} /\ last.ret \in ProviderName)
        => \A n \in Rivals :
              IndexOfFrom(providerConfigs, last.ret, 1) < IndexOfFrom(providerConfigs, n, 1)

\* a loaded configuration lists Ollama before Groq with the same priority,
\* both are reported available and connected, and Ollama has been selected
C24_Witness ==
    /\ last.op \in {"autoSelectProvider", "failover"}
    /\ last.ret = "ollama"
    /\ "groq" \in Rivals
    /\ IndexOfFrom(providerConfigs, "ollama", 1) < IndexOfFrom(providerConfigs, "groq", 1)

\* C25: the backend that auto-select or failover has made active has an entry
\* in the configuration and the entry is enabled; when they return null they
\* have made no backend active.
C25_OnlyEnabledSelected ==
    last.op \in {"autoSelectProvider", "failover"}
        => IF last.ret \in ProviderName
           THEN activeProvider = last.ret /\ IsEnabled(last.ret)
           ELSE activeProvider \in {"null", last.prev}

\* a backend that is reported available and connected is passed by because
\* its entry is disabled, another because it has no entry, and a third one is
\* made active
C25_Witness ==
    /\ last.op \in {"autoSelectProvider", "failover"}
    /\ last.ret \in ProviderName
    /\ \E n, m \in ProviderName \ {last.ret, last.prev} :
          /\ Eligible(last.detection, n)
          /\ Eligible(last.detection, m)
          /\ IndexOfFrom(providerConfigs, n, 1) > 0
          /\ ~ConfigOf(n).enabled
          /\ IndexOfFrom(providerConfigs, m, 1) = 0

----------------------------------------------------------------------------
(* The detection pass on its own: detectProviders() applied to every        *)
(* combination of probe outcomes, throws included, and a second run in      *)
(* which one adapter behaves differently.                                   *)

\* the probe outcomes that differ in a call that is made
RelevantOutcome ==
    {o \in ProbeOutcome :
        /\ (o.avail = "throw") => ~o.statusThrows
        /\ (o.avail = "throw" \/ o.statusThrows) => o.status = NoStatus
        /\ (o.avail = "throw" \/ o.statusThrows \/ ~o.status.connected) => o.models = "ok"}

DetectInit ==
    /\ MgrInit /\ GroqInit /\ ChatIdle /\ RegIdle /\ IntIdle
    /\ behaviour \in [ProviderName -> RelevantOutcome]
    /\ other \in [p : ProviderName, outcome : RelevantOutcome]
    /\ detected = <<>>

\* the second run: adapter other.p behaves as other.outcome
SecondRun == [behaviour EXCEPT ![other.p] = other.outcome]

\* await manager.detectProviders(), in both runs, and the calls that the
\* first run has made on each adapter
DetectProviders ==
    /\ detected = <<>>
    /\ detected' = <<detectProviders(behaviour), detectProviders(SecondRun),
                     [p \in ProviderName |-> ProbeCalls(behaviour[p])]>>
    /\ UNCHANGED <<mgrVars, groqVars, behaviour, other, chatVars, regVars, intVars, listVars, toolVars>>

DetectNext == DetectProviders

DetectSpec == DetectInit /\ [][DetectNext]_vars

AnyThrows(outcome) == outcome.avail = "throw" \/ outcome.statusThrows \/ outcome.models = "throw"

\* C8: detectProviders() never raises, whichever probe calls throw, and its
\* result has exactly one entry per known backend, in the order of the list.
C8_DetectNeverRaises ==
    detected # <<>>
        => /\ ~detected[1].raised
           /\ Len(detected[1].results) = Len(getAvailableProviders)
           /\ \A i \in 1..Len(getAvailableProviders) :
                 detected[1].results[i].provider = getAvailableProviders[i]

\* a finished pass in which every adapter threw at some probe step
C8_Witness ==
    /\ detected # <<>>
    /\ \A p \in ProviderName : AnyThrows(behaviour[p])
    /\ \E p \in ProviderName : behaviour[p].avail = "throw"
    /\ \E p \in ProviderName : behaviour[p].statusThrows
    /\ \E p \in ProviderName : behaviour[p].models = "throw"

\* C9: the entry reported for backend B is the same in two runs that differ
\* only in what another backend does, and is reported in both.
C9_EntryIndependent ==
    detected # <<>>
        => \A b \in ProviderName \ {other.p} :
              /\ Find(detected[1].results, b).provider = b
              /\ Find(detected[1].results, b) = Find(detected[2].results, b)

\* two finished runs where the first backend of the list throws in one run and
\* answers in the other, and a later backend is connected
C9_Witness ==
    /\ detected # <<>>
    /\ other.p = "groq"
    /\ other.outcome.avail = "throw"
    /\ behaviour["groq"].status.connected
    /\ Find(detected[1].results, "lmstudio").status.connected
    /\ Find(detected[1].results, "groq") # Find(detected[2].results, "groq")

\* C27 as stated: getStatus() has been invoked only on the backends whose
\* isAvailable() returned true.
C27_Original ==
    detected # <<>>
        => \A p \in ProviderName :
              (\E i \in 1..Len(detected[3][p]) : detected[3][p][i] = "getStatus")
                 => behaviour[p].avail = "true"

\* C27 amended: on every backend isAvailable() has been invoked first;
\* getStatus() has been invoked next exactly when isAvailable() returned,
\* true or false, and not when it threw; listModels() has been invoked last
\* exactly when getStatus() returned connected = true.
C27_StatusWheneverAvailabilityReturns ==
    detected # <<>>
        => \A p \in ProviderName :
              LET calls == detected[3][p]
                  pr == behaviour[p]
                  asked == pr.avail # "throw"
                  listed1 == asked /\ ~pr.statusThrows /\ pr.status.connected
              IN  /\ calls[1] = "isAvailable"
                  /\ Len(calls) = 1 + (IF asked THEN 1 ELSE 0) + (IF listed1 THEN 1 ELSE 0)
                  /\ asked => calls[2] = "getStatus"
                  /\ listed1 => calls[3] = "listModels"

\* a backend whose isAvailable() returned false has been asked for its status
\* and has reported connected, and the entry of the pass says so
C27_Witness ==
    /\ detected # <<>>
    /\ \E p \in ProviderName :
          /\ behaviour[p].avail = "false"
          /\ detected[3][p] = <<"isAvailable", "getStatus", "listModels">>
          /\ ~Find(detected[1].results, p).available
          /\ Find(detected[1].results, p).status.connected

----------------------------------------------------------------------------
(* chat(options, abortSignal) of the three adapters.  `chat` holds one     *)
(* call: pc is "idle" before the call, "fetch" while the local adapters'    *)
(* fetch() is pending, "json" / "text" while the response body is read,     *)
(* "sdk" while the Groq SDK call is pending, "done" once chat() has settled.*)
(* http is the status of an error response of the Groq API, 0 without one.  *)

NoChat ==
    [pc |-> "idle", provider |-> "none", tools |-> FALSE, signal |-> FALSE,
     listener |-> FALSE, controllerAborted |-> FALSE, timer |-> "none",
     transport |-> 0, http |-> 0, result |-> "none", code |-> "none", tag |-> "none",
     preCancelled |-> FALSE, inflightCancel |-> FALSE, lateCancels |-> 0]

LocalProviders == {"ollama", "lmstudio"}

\* supportsTools() of each adapter
supportsTools(p) == p = "groq"

ChatInit ==
    /\ MgrInit /\ GroqInit /\ DetIdle /\ RegIdle /\ IntIdle
    /\ chat = NoChat
    /\ abortSignal = [aborted |-> FALSE, cancels |-> 0]

\* the catch block of chat(): an error named AbortError is rethrown as it is,
\* anything else becomes ProviderError(..., this.name, 'CHAT_REQUEST_ERROR')
ChatCatch(c, errorName) ==
    IF errorName = "AbortError"
    THEN [c EXCEPT !.pc = "done", !.result = "AbortError"]
    ELSE [c EXCEPT !.pc = "done", !.result = "ProviderError",
                   !.code = "CHAT_REQUEST_ERROR", !.tag = c.provider]

\* OllamaProvider.chat / LMStudioProvider.chat up to the fetch() call: the
\* request body is built without the tools, a controller and its timeout are
\* created, an 'abort' listener is put on the caller's signal when one is given,
\* and fetch() starts with the controller's signal
LocalChatStart(p, tools, signal, aborted) ==
    [NoChat EXCEPT !.pc = "fetch", !.provider = p, !.tools = tools, !.signal = signal,
                   !.listener = signal, !.timer = "armed", !.transport = 1,
                   !.preCancelled = signal /\ aborted]

\* GroqProvider.chat up to the SDK call: a missing client is initialized first,
\* which throws without a key; the caller's signal goes to the SDK
GroqChatStart(tools, signal, aborted, client, key) ==
    LET c == [NoChat EXCEPT !.provider = "groq", !.tools = tools, !.signal = signal,
                            !.preCancelled = signal /\ aborted]
    IN  IF ~client /\ ~key THEN ChatCatch(c, "ProviderError")
        ELSE [c EXCEPT !.pc = "sdk", !.transport = 1]

\* await provider.chat(options, abortSignal)
ChatStart ==
    /\ chat.pc = "idle"
    /\ \E p \in ProviderName, tools \in BOOLEAN, signal \in BOOLEAN :
          /\ chat' = IF p \in LocalProviders
                     THEN LocalChatStart(p, tools, signal, abortSignal.aborted)
                     ELSE GroqChatStart(tools, signal, abortSignal.aborted,
                                        groqClient, groqKey)
          /\ groqClient' = IF p = "groq" /\ groqKey THEN TRUE ELSE groqClient
    /\ UNCHANGED <<mgrVars, groqKey, detVars, abortSignal, regVars, intVars, listVars, toolVars>>

\* a listener that also settles a call that has already returned
OnAbortClobbers(c) ==
    IF c.listener
    THEN [c EXCEPT !.controllerAborted = TRUE,
                   !.result = IF c.pc = "done" THEN "AbortError" ELSE @]
    ELSE c

\* the listener () => controller.abort() put on the caller's signal
OnAbort(c) ==
    IF c.listener THEN [c EXCEPT !.controllerAborted = TRUE] ELSE c

InFlight(c) == c.pc \in {"fetch", "json", "text", "sdk"}

\* the caller cancels its token: AbortController.abort() dispatches 'abort'
\* once, to the listeners registered at that moment; a later abort() does nothing
Cancel ==
    /\ abortSignal.cancels < MaxCancels
    /\ abortSignal' = [aborted |-> TRUE, cancels |-> abortSignal.cancels + 1]
    /\ chat' = [(IF abortSignal.aborted THEN chat ELSE OnAbort(chat)) EXCEPT
                   !.inflightCancel = @ \/ (chat.signal /\ InFlight(chat)
                                                /\ ~abortSignal.aborted),
                   !.lateCancels = IF chat.pc = "done" THEN @ + 1 ELSE @]
    /\ UNCHANGED <<mgrVars, groqVars, detVars, regVars, intVars, listVars, toolVars>>

\* the adapter's own setTimeout(() => controller.abort(), 30000 or 60000) fires
TimerFires ==
    /\ chat.timer = "armed"
    /\ chat' = [chat EXCEPT !.timer = "fired", !.controllerAborted = TRUE]
    /\ UNCHANGED <<mgrVars, groqVars, detVars, abortSignal, regVars, intVars, listVars, toolVars>>

\* fetch() settles: rejected with AbortError once the controller is aborted,
\* otherwise a response (ok or not, the timeout is cleared) or a network error
FetchSettles ==
    /\ chat.pc = "fetch"
    /\ IF chat.controllerAborted
       THEN chat' = ChatCatch(chat, "AbortError")
       ELSE \/ chat' = [chat EXCEPT !.pc = "json", !.timer = "cleared"]
            \/ chat' = [chat EXCEPT !.pc = "text", !.timer = "cleared"]
            \/ chat' = ChatCatch(chat, "FetchError")
    /\ UNCHANGED <<mgrVars, groqVars, detVars, abortSignal, regVars, intVars, listVars, toolVars>>

\* response.json() / response.text() settles: rejected with AbortError once the
\* controller is aborted; otherwise the response is returned (ok), or
\* Error('HTTP ...') is thrown (not ok), or the body cannot be read or parsed
BodySettles ==
    /\ chat.pc \in {"json", "text"}
    /\ IF chat.controllerAborted
       THEN chat' = ChatCatch(chat, "AbortError")
       ELSE \/ /\ chat.pc = "json"
               /\ chat' = [chat EXCEPT !.pc = "done", !.result = "response"]
            \/ /\ chat.pc = "text"
               /\ chat' = ChatCatch(chat, "Error")
            \/ chat' = ChatCatch(chat, "FetchError")
    /\ UNCHANGED <<mgrVars, groqVars, detVars, abortSignal, regVars, intVars, listVars, toolVars>>

\* the name of the error with which the Groq SDK rejects an aborted request;
\* GroqProvider.chat only recognises 'AbortError'
SdkAbortErrorName == {"AbortError", "Error"}

\* the error responses of the Groq API that the model tells apart: the key is
\* rejected (401), or anything else (500)
HttpErrorStatus == {401, 500}

\* client.chat.completions.create(..., {signal}) settles: rejected once the
\* signal it was given is aborted, otherwise a completion, a connection error,
\* or the SDK's error for an error response of the API
SdkSettles ==
    /\ chat.pc = "sdk"
    /\ IF chat.signal /\ abortSignal.aborted
       THEN \E name \in SdkAbortErrorName : chat' = ChatCatch(chat, name)
       ELSE \/ chat' = [chat EXCEPT !.pc = "done", !.result = "response"]
            \/ chat' = ChatCatch(chat, "Error")
            \/ \E status \in HttpErrorStatus :
                  chat' = ChatCatch([chat EXCEPT !.http = status], "Error")
    /\ UNCHANGED <<mgrVars, groqVars, detVars, abortSignal, regVars, intVars, listVars, toolVars>>

\* the caller starts the next turn with a new token
NextTurn ==
    /\ chat.pc = "done"
    /\ chat' = NoChat
    /\ abortSignal' = [aborted |-> FALSE, cancels |-> 0]
    /\ UNCHANGED <<mgrVars, groqVars, detVars, regVars, intVars, listVars, toolVars>>

ChatNext ==
    \/ ChatStart
    \/ Cancel
    \/ TimerFires
    \/ FetchSettles
    \/ BodySettles
    \/ SdkSettles
    \/ NextTurn

ChatSpec == ChatInit /\ [][ChatNext]_vars

\* the same steps with what the runtime guarantees: an armed timer fires, and
\* the pending fetch() or body read is rejected once its controller is
\* aborted; a backend may never answer and a caller may never cancel
ChatLiveSpec ==
    /\ ChatSpec
    /\ WF_vars(TimerFires)
    /\ WF_vars((FetchSettles \/ BodySettles) /\ chat.controllerAborted)

----------------------------------------------------------------------------
(* Cancellation and capability checks of chat() *)

\* C4: a chat() called with a token that is already cancelled ends with the
\* cancelled outcome (AbortError).
C4_PreCancelledIsCancelled ==
    (chat.pc = "done" /\ chat.preCancelled) => chat.result = "AbortError"

\* C5: chat() ends with the cancelled outcome only if the caller's token was
\* cancelled; every other failure is a ProviderError tagged with the backend.
C5_CancelledOnlyByToken ==
    chat.pc = "done"
        => /\ chat.result = "AbortError" => (chat.signal /\ abortSignal.aborted)
           /\ chat.result = "ProviderError" => chat.tag = chat.provider

\* C6: a chat() whose token is cancelled while the transport call is in flight
\* returns the cancelled outcome, not a response and not a ProviderError.
C6_InFlightCancelIsCancelled ==
    (chat.pc = "done" /\ chat.inflightCancel) => chat.result = "AbortError"

\* C7: a cancel() after chat() has returned, or on a token that is already
\* cancelled, changes neither the outcome of the call nor any adapter or
\* manager state.
C7_LateCancelIsNoOp ==
    [][(abortSignal'.cancels = abortSignal.cancels + 1
            /\ (chat.pc = "done" \/ abortSignal.aborted))
        => (/\ chat'.pc = chat.pc
            /\ chat'.result = chat.result
            /\ chat'.code = chat.code
            /\ chat'.tag = chat.tag
            /\ UNCHANGED <<mgrVars, groqVars>>)]_vars

\* a call that returned a response to a caller who passed its token and then
\* cancelled it twice
C7_Witness ==
    /\ chat.pc = "done"
    /\ chat.result = "response"
    /\ chat.listener
    /\ chat.lateCancels = 2
    /\ abortSignal.aborted

\* C10: chat() on a backend without tool support, with a request that carries
\* tool schemas, makes no transport call and returns a capability error tagged
\* with that backend.
C10_ToolsRefusedLocally ==
    (chat.pc # "idle" /\ chat.tools /\ ~supportsTools(chat.provider))
        => /\ chat.transport = 0
           /\ chat.pc = "done"
           /\ chat.result = "ProviderError"
           /\ chat.tag = chat.provider
           /\ chat.code # "CHAT_REQUEST_ERROR"

\* C11: a chat() on the cloud backend that the API answers with HTTP 401 fails
\* with a ProviderError tagged with the cloud backend whose code names the
\* credential (API_KEY_MISSING is the adapter's only such code) and not the
\* generic request failure.
C11_UnauthorizedIsAuthError ==
    (chat.pc = "done" /\ chat.http = 401)
        => /\ chat.result = "ProviderError"
           /\ chat.tag = "groq"
           /\ chat.code = "API_KEY_MISSING"

\* C22: a chat() on the cloud backend made with no credential configured has
\* failed with a ProviderError tagged with the cloud backend whose code is
\* API_KEY_MISSING, and no request has gone to the transport.
C22_NoKeyIsApiKeyMissing ==
    (chat.provider = "groq" /\ chat.pc = "done" /\ ~groqKey)
        => /\ chat.result = "ProviderError"
           /\ chat.tag = "groq"
           /\ chat.code = "API_KEY_MISSING"
           /\ chat.transport = 0

\* C28: every chat() on a local backend that is in flight ends, whatever the
\* backend does.
C28_LocalChatTerminates ==
    (chat.provider \in LocalProviders /\ InFlight(chat)) ~> (chat.pc = "done")

----------------------------------------------------------------------------
(* ProviderManager: the operations that only read.  getAllModels(),         *)
(* findModels() and getStatusSummary() run a detection pass and compute     *)
(* their result from it; healthCheck() asks the active adapter's status.    *)

\* the backends whose models getAllModels() returns, in detection order
RECURSIVE getAllModels(_, _)
getAllModels(detection, i) ==
    IF i > Len(detection) THEN <<>>
    ELSE IF detection[i].models
         THEN <<detection[i].provider>> \o getAllModels(detection, i + 1)
         ELSE getAllModels(detection, i + 1)

\* the record returned by getStatusSummary()
getStatusSummary(detection, active) ==
    [total |-> Len(detection),
     available |-> Cardinality({i \in 1..Len(detection) : detection[i].available}),
     connected |-> Cardinality({i \in 1..Len(detection) : detection[i].status.connected}),
     active |-> active]

\* a health check that drops an active backend found disconnected
healthCheckDropsActive(st, w, key) ==
    IF st.active = "null" THEN [st EXCEPT !.threw = TRUE]
    ELSE LET status == AdapterGetStatus(st.active, w, key)
         IN  [active |-> IF status.connected THEN st.active ELSE "null",
              client |-> ClientAfterGetStatus(st.active, st.client, key),
              calls |-> st.calls
                          \o <<Call(st.active, "getStatus", "manager",
                                    IF status.connected THEN "connected" ELSE "disconnected")>>,
              threw |-> ~status.connected]

\* healthCheck(); threw = TRUE stands for "return false"
healthCheck(st, w, key) ==
    IF st.active = "null" THEN [st EXCEPT !.threw = TRUE]
    ELSE LET status == AdapterGetStatus(st.active, w, key)
         IN  [active |-> st.active,
              client |-> ClientAfterGetStatus(st.active, st.client, key),
              calls |-> st.calls
                          \o <<Call(st.active, "getStatus", "manager",
                                    IF status.connected THEN "connected" ELSE "disconnected")>>,
              threw |-> ~status.connected]

\* the manager state after a detection pass: GroqProvider.getStatus() may have
\* created the client
AfterDetection == [Start(Here) EXCEPT !.client = ClientAfterGetStatus("groq", @, groqKey)]

\* await manager.detectProviders()
DetectAll ==
    /\ mgrPc = "ready"
    /\ \E wA \in AvailWorld, wS \in World :
          Finish("detectProviders", "none", AfterDetection, "results",
                 detectProviders(RealProbes(wA, wS, groqKey)).results)

\* await manager.getAllModels()
GetAllModels ==
    /\ mgrPc = "ready"
    /\ \E wA \in AvailWorld, wS \in World :
          Finish("getAllModels", "none", AfterDetection, "models",
                 detectProviders(RealProbes(wA, wS, groqKey)).results)

\* await manager.findModels(query): getAllModels() and a filter on its result
FindModels ==
    /\ mgrPc = "ready"
    /\ \E wA \in AvailWorld, wS \in World :
          Finish("findModels", "none", AfterDetection, "models",
                 detectProviders(RealProbes(wA, wS, groqKey)).results)

\* await manager.getStatusSummary()
GetStatusSummary ==
    /\ mgrPc = "ready"
    /\ \E wA \in AvailWorld, wS \in World :
          Finish("getStatusSummary", "none", AfterDetection, "summary",
                 detectProviders(RealProbes(wA, wS, groqKey)).results)

\* await manager.healthCheck()
HealthCheck ==
    /\ mgrPc = "ready"
    /\ \E wR \in ReadWorlds(World, {activeProvider} \cap ProviderName) :
          LET r == healthCheck(Start(Here), wR, groqKey)
          IN  Finish("healthCheck", "none", r, IF r.threw THEN "false" ELSE "true", <<>>)

----------------------------------------------------------------------------
(* One session under the default configuration: selection, the reading      *)
(* operations, cleanup and chat() calls.  The conversation loop awaits each *)
(* manager call and each chat() call and takes its result before the next   *)
(* call, so one of them is in flight at a time; only the cancellation of    *)
(* the token arrives at any moment.                                         *)

SessionInit == ChatInit

SessionNext ==
    \/ chat.pc = "idle" /\ SetActiveProvider
    \/ chat.pc = "idle" /\ AutoSelectProvider
    \/ chat.pc = "idle" /\ Failover
    \/ chat.pc = "idle" /\ ManagerCleanup
    \/ chat.pc = "idle" /\ DetectAll
    \/ chat.pc = "idle" /\ GetAllModels
    \/ chat.pc = "idle" /\ FindModels
    \/ chat.pc = "idle" /\ GetStatusSummary
    \/ chat.pc = "idle" /\ HealthCheck
    \/ chat.pc = "idle" /\ Resume
    \/ mgrPc = "ready" /\ ChatStart
    \/ Cancel
    \/ TimerFires
    \/ FetchSettles
    \/ BodySettles
    \/ SdkSettles
    \/ NextTurn

SessionSpec == SessionInit /\ [][SessionNext]_vars

\* C36: every entry of a detection result that is connected is available,
\* and the summary of getStatusSummary() has connected <= available <= total,
\* total the number of known backends and active the active backend.
C36_ConnectedImpliesAvailable ==
    last.op = "getStatusSummary"
        => LET summary == getStatusSummary(last.detection, activeProvider)
           IN  /\ \A i \in 1..Len(last.detection) :
                     last.detection[i].status.connected => last.detection[i].available
               /\ summary.connected <= summary.available
               /\ summary.available <= summary.total
               /\ summary.total = Cardinality(ProviderName)
               /\ summary.active = activeProvider

SelectionOps == {"setActiveProvider", "autoSelectProvider", "failover"}

\* C15 as stated: the active backend changes only in a step of
\* setActiveProvider(), autoSelectProvider() or failover().
C15_Original ==
    [][activeProvider' # activeProvider
        => (mgrPc = "ready" /\ mgrPc' = "returned" /\ last'.op \in SelectionOps)]_vars

\* C15 amended: the active backend changes only in a step of
\* setActiveProvider(), autoSelectProvider(), failover() or the manager's
\* cleanup(); no step of a chat() call, whatever its outcome, no cancellation
\* and no detectProviders(), getStatusSummary(), getAllModels(), findModels()
\* or healthCheck() changes it.
C15_ActiveChangedOnlyExplicitly ==
    [][/\ activeProvider' # activeProvider
            => (mgrPc = "ready" /\ mgrPc' = "returned"
                    /\ last'.op \in SelectionOps \cup {"cleanup"})
       /\ (chat' # chat \/ abortSignal' # abortSignal)
            => activeProvider' = activeProvider
       /\ (mgrPc = "ready" /\ mgrPc' = "returned"
            /\ last'.op \in {"detectProviders", "getStatusSummary", "getAllModels",
                             "findModels", "healthCheck"})
            => activeProvider' = activeProvider]_vars

\* a chat() on the active backend has made its transport call and failed with
\* a ProviderError: the backend is still the active one
C15_Witness ==
    /\ chat.pc = "done"
    /\ chat.result = "ProviderError"
    /\ chat.transport = 1
    /\ chat.provider = activeProvider
    /\ activeProvider \in ProviderName

----------------------------------------------------------------------------
(* The registry under observation: the manager's operations under the       *)
(* default configuration, with the instances they ask the registry for.     *)

\* manager.getProvider(name)
GetProvider ==
    /\ mgrPc = "ready"
    /\ \E name \in ProviderName :
          Finish("getProvider", name, Start(Here), "instance", <<>>)

RegistryInit ==
    /\ MgrInit /\ GroqInit /\ DetIdle /\ ChatIdle /\ IntIdle
    /\ providers = {}
    /\ created = [n \in ProviderName |-> 0]
    /\ handed = [NoHanded EXCEPT !.on = TRUE]

RegistryNext ==
    \/ GetProvider
    \/ SetActiveProvider
    \/ AutoSelectProvider
    \/ Failover
    \/ DetectAll
    \/ GetAllModels
    \/ FindModels
    \/ GetStatusSummary
    \/ HealthCheck
    \/ ManagerCleanup
    \/ Resume

RegistrySpec == RegistryInit /\ [][RegistryNext]_vars

\* C16 as stated: all the get-or-create calls made for one backend identity
\* have returned one and the same instance, and the registry holds at most one
\* instance per identity.
C16_Original ==
    \A n \in ProviderName :
        /\ Cardinality(handed.ever[n]) <= 1
        /\ Cardinality(Lookup(providers, n)) <= 1

\* C16 amended: the get-or-create calls made for one backend identity with no
\* cleanup() of the manager between them have returned one and the same
\* instance, which is the one the registry holds, and the registry holds at
\* most one instance per identity.
C16_Memoized ==
    \A n \in ProviderName :
        /\ Cardinality(handed.sinceClear[n]) <= 1
        /\ Cardinality(Lookup(providers, n)) <= 1
        /\ handed.sinceClear[n] = {e.id : e \in Lookup(providers, n)}

\* getProvider(name) for the backend that an earlier operation has made
\* active, with no cleanup() so far: the second request for that identity
C16_Witness ==
    /\ handed.on
    /\ handed.cleanups = 0
    /\ last.op = "getProvider"
    /\ last.arg = activeProvider
    /\ handed.sinceClear[last.arg] = {1}

\* C17 as stated: every get-or-create call for an identity has returned the
\* instance that the first call for that identity returned.
C17_NeverEvicted ==
    \A n \in ProviderName : handed.ever[n] \subseteq {1}

\* C17 amended: as long as the manager's cleanup() has not been called, every
\* get-or-create call for an identity has returned the instance the first call
\* returned; cleanup() empties the registry, and an identity has been given at
\* most one new instance per cleanup() call since.
C17_EvictedOnlyByCleanup ==
    \A n \in ProviderName :
        /\ handed.cleanups = 0 => handed.ever[n] \subseteq {1}
        /\ Cardinality(handed.ever[n]) <= handed.cleanups + 1
        /\ handed.ever[n] = 1..created[n]
        /\ Lookup(providers, n) \subseteq {[name |-> n, id |-> created[n]]}

\* after a cleanup() an identity that had an instance is asked for again and
\* gets a second instance
C17_Witness ==
    /\ handed.cleanups = 1
    /\ \E n \in ProviderName :
          /\ handed.ever[n] = {1, 2}
          /\ Lookup(providers, n) = {[name |-> n, id |-> 2]}

----------------------------------------------------------------------------
(* src/utils/interrupt-handler.ts: the InterruptHandler singleton.  A       *)
(* handler state h holds its fields isShuttingDown and interruptCallbacks,  *)
(* and of the process: pc ("running", "cleanup" while handleInterrupt()     *)
(* awaits the race of the callbacks' promises and the 2 s timer, "exited"   *)
(* after process.exit), the exit code, how often each callback has been     *)
(* invoked, the callbacks whose promise is pending and the timer.  A        *)
(* callback "returns", "throws" (synchronously), or returns a promise that  *)
(* "resolves" or "rejects" later.  atInterrupt keeps the ids of those that  *)
(* were registered when the first interrupt arrived, lastSignal the kind of *)
(* the last interrupt delivered, signals their number.                      *)

CallbackId == 1..MaxCallbacks

CallbackKind == {"returns", "throws", "resolves", "rejects"}

\* the state after getInstance(): the signal handlers are installed
NewHandler ==
    [isShuttingDown |-> FALSE, interruptCallbacks |-> <<>>, pc |-> "running",
     exitCode |-> -1, invoked |-> [id \in CallbackId |-> 0], pending |-> {},
     timer |-> "none", forced |-> FALSE, atInterrupt |-> {},
     lastSignal |-> "none", signals |-> 0]

\* source === 'SIGINT' ? 130 : 0
ExitCode(source) == IF source = "SIGINT" THEN 130 ELSE 0

RECURSIVE InvokeFrom(_, _)
\* interruptCallbacks.map(callback => Promise.resolve(callback()).catch(...)):
\* the callbacks are called in order; a promise that rejects is caught, a
\* callback that throws ends the map
InvokeFrom(h, i) ==
    IF i > Len(h.interruptCallbacks) THEN [h |-> h, threw |-> FALSE]
    ELSE LET cb == h.interruptCallbacks[i]
             h1 == [h EXCEPT !.invoked[cb.id] = @ + 1]
         IN  IF cb.kind = "throws" THEN [h |-> h1, threw |-> TRUE]
             ELSE IF cb.kind = "returns" THEN InvokeFrom(h1, i + 1)
                  ELSE InvokeFrom([h1 EXCEPT !.pending = @ \cup {cb.id}], i + 1)

\* process.exit(code)
Exit(h, code) == [h EXCEPT !.pc = "exited", !.exitCode = code]

\* a handleInterrupt() that awaits Promise.all of the callbacks alone, with
\* no timer in the race
handleInterruptNoTimer(h, source) ==
    IF h.isShuttingDown THEN h
    ELSE LET run == InvokeFrom([h EXCEPT !.isShuttingDown = TRUE,
                                         !.atInterrupt =
                                             {h.interruptCallbacks[i].id :
                                                i \in 1..Len(h.interruptCallbacks)}],
                           1)
         IN  IF run.threw \/ run.h.pending = {}
             THEN Exit(run.h, ExitCode(source))
             ELSE [run.h EXCEPT !.pc = "cleanup", !.exitCode = ExitCode(source)]

\* handleInterrupt(source) up to its await, or to process.exit when nothing is
\* left to await: a thrown error goes to the catch block, promises that are
\* all settled let the race end before any other event
handleInterrupt(h, source) ==
    IF h.isShuttingDown THEN h
    ELSE LET run == InvokeFrom([h EXCEPT !.isShuttingDown = TRUE,
                                         !.atInterrupt =
                                             {h.interruptCallbacks[i].id :
                                                i \in 1..Len(h.interruptCallbacks)}],
                           1)
         IN  IF run.threw \/ run.h.pending = {}
             THEN Exit(run.h, ExitCode(source))
             ELSE [run.h EXCEPT !.pc = "cleanup", !.timer = "armed",
                                !.exitCode = ExitCode(source)]

\* a SIGINT listener that only starts the graceful shutdown
ctrlCHandlerNoForce(h) ==
    handleInterrupt(h, "SIGINT")

\* the listener of SIGINT installed by setupSignalHandlers()
ctrlCHandler(h) ==
    IF h.isShuttingDown
    THEN [Exit(h, 130) EXCEPT !.forced = TRUE]
    ELSE handleInterrupt(h, "SIGINT")

\* the listener of SIGTERM made by createSignalHandler(signal)
createSignalHandler(h, signal) == handleInterrupt(h, signal)

\* triggerInterrupt(source = 'UI')
triggerInterrupt(h, source) == handleInterrupt(h, source)

InterruptInit ==
    /\ MgrInit /\ GroqInit /\ DetIdle /\ ChatIdle /\ RegIdle
    /\ handler = NewHandler
    /\ listed = <<>>
    /\ called = <<>>
    /\ found = <<>>
    /\ switching = <<>>
    /\ guidance = <<>>
    /\ modelCommand = <<>> /\ watcher = <<>> /\ session = <<>>

\* onInterrupt(callback): the callback is put at the end of the list
OnInterrupt ==
    /\ handler.pc # "exited"
    /\ \E id \in CallbackId, kind \in CallbackKind :
          /\ \A i \in 1..Len(handler.interruptCallbacks) :
                handler.interruptCallbacks[i].id # id
          /\ handler' = [handler EXCEPT
                            !.interruptCallbacks = Append(@, [id |-> id, kind |-> kind])]
    /\ UNCHANGED <<mgrVars, groqVars, detVars, chatVars, regVars, listVars, toolVars>>

\* the function returned by onInterrupt(callback): the callback is taken out
Unregister ==
    /\ handler.pc # "exited"
    /\ \E i \in 1..Len(handler.interruptCallbacks) :
          handler' = [handler EXCEPT
                         !.interruptCallbacks =
                             SubSeq(@, 1, i - 1) \o SubSeq(@, i + 1, Len(@))]
    /\ UNCHANGED <<mgrVars, groqVars, detVars, chatVars, regVars, listVars, toolVars>>

\* the process receives SIGINT or SIGTERM
Signal ==
    /\ handler.pc # "exited"
    /\ handler.signals < MaxSignals
    /\ \E signal \in {"SIGINT", "SIGTERM"} :
          handler' = [(IF signal = "SIGINT" THEN ctrlCHandler(handler)
                       ELSE createSignalHandler(handler, signal)) EXCEPT
                         !.signals = @ + 1, !.lastSignal = signal]
    /\ UNCHANGED <<mgrVars, groqVars, detVars, chatVars, regVars, listVars, toolVars>>

\* the UI calls triggerInterrupt()
TriggerInterrupt ==
    /\ handler.pc # "exited"
    /\ handler.signals < MaxSignals
    /\ handler' = [triggerInterrupt(handler, "UI") EXCEPT
                      !.signals = @ + 1, !.lastSignal = "UI"]
    /\ UNCHANGED <<mgrVars, groqVars, detVars, chatVars, regVars, listVars, toolVars>>

\* the promise of a callback settles; when it was the last one pending,
\* Promise.all wins the race and handleInterrupt() goes on to process.exit
CallbackSettles ==
    /\ handler.pc = "cleanup"
    /\ \E id \in handler.pending :
          LET h == [handler EXCEPT !.pending = @ \ {id}]
          IN  handler' = IF h.pending = {} THEN Exit(h, h.exitCode) ELSE h
    /\ UNCHANGED <<mgrVars, groqVars, detVars, chatVars, regVars, listVars, toolVars>>

\* setTimeout(resolve, 2000) wins the race
CleanupTimeout ==
    /\ handler.pc = "cleanup"
    /\ handler.timer = "armed"
    /\ handler' = Exit([handler EXCEPT !.timer = "fired"], handler.exitCode)
    /\ UNCHANGED <<mgrVars, groqVars, detVars, chatVars, regVars, listVars, toolVars>>

InterruptNext ==
    \/ OnInterrupt
    \/ Unregister
    \/ Signal
    \/ TriggerInterrupt
    \/ CallbackSettles
    \/ CleanupTimeout

InterruptSpec == InterruptInit /\ [][InterruptNext]_vars

\* the event loop runs a timer that is due; a callback's promise may stay
\* pending for ever
InterruptLiveSpec == InterruptSpec /\ WF_vars(CleanupTimeout)

\* an interrupt is delivered in this step while the cleanup is in progress
SecondInterrupt ==
    /\ handler.pc = "cleanup"
    /\ handler'.signals = handler.signals + 1

\* C18 as stated: an interrupt of any kind delivered while the cleanup is in
\* progress ends the process in that step, with callbacks still pending and
\* the timer not fired.
C18_Original ==
    [][SecondInterrupt => handler'.pc = "exited"]_vars

\* C18 amended: a SIGINT delivered while the cleanup is in progress ends the
\* process in that step with exit code 130, with callbacks still pending and
\* the timer not fired; a SIGTERM or an explicit trigger delivered then is
\* ignored and the cleanup goes on.
C18_SecondSigintForcesExit ==
    [][SecondInterrupt
        => IF handler'.lastSignal = "SIGINT"
           THEN /\ handler'.pc = "exited"
                /\ handler'.exitCode = 130
                /\ handler'.pending = handler.pending
                /\ handler'.timer = "armed"
           ELSE /\ handler'.pc = "cleanup"
                /\ handler'.pending = handler.pending
                /\ handler'.timer = handler.timer
                /\ handler'.invoked = handler.invoked]_vars

\* the process has ended by the second Ctrl+C while a callback's promise was
\* pending and the timer had not fired
C18_Witness ==
    /\ handler.pc = "exited"
    /\ handler.forced
    /\ handler.pending # {}
    /\ handler.timer = "armed"
    /\ handler.signals = 2

\* C19: once the first interrupt has been handled, every callback registered
\* at that moment has been invoked exactly once, whatever another callback
\* did, and no callback has ever been invoked twice.
C19_EveryCallbackOnce ==
    handler.isShuttingDown
        => /\ \A id \in handler.atInterrupt : handler.invoked[id] = 1
           /\ \A id \in CallbackId : handler.invoked[id] <= 1

\* C33: once the first interrupt is being handled the process exits, also
\* when the promise of a callback stays pending for ever; the first
\* interrupt sets the exit code to 130 when its source is SIGINT and to 0
\* otherwise, and the exit of handleInterrupt(), by the 2 s timer or by the
\* callbacks' completion, has that code.
C33_InterruptAlwaysExits ==
    /\ handler.isShuttingDown ~> (handler.pc = "exited")
    /\ [][(~handler.isShuttingDown /\ handler'.isShuttingDown)
            => handler'.exitCode = (IF handler'.lastSignal = "SIGINT" THEN 130 ELSE 0)]_vars
    /\ [][(handler.pc = "cleanup" /\ handler'.pc = "exited" /\ ~handler'.forced)
            => handler'.exitCode = handler.exitCode]_vars

\* the timer has ended the cleanup of a SIGINT with a promise still pending
C33_Witness ==
    /\ handler.pc = "exited"
    /\ handler.timer = "fired"
    /\ handler.pending # {}
    /\ handler.lastSignal = "SIGINT"
    /\ handler.signals = 1
    /\ handler.exitCode = 130

----------------------------------------------------------------------------
(* listModels() of the three adapters.  The round trip ends in an error (no *)
(* connection, the 10 s abort, a status that is not ok, a body that cannot  *)
(* be read as the expected JSON, an error of the Groq SDK) or in a list of  *)
(* 0..MaxModels models reported by the backend.                             *)

ListReply ==
    [kind : {"error"}, count : {-1}] \cup [kind : {"models"}, count : 0..MaxModels]

NoListing == [reply |-> "none", outcome |-> "none", count |-> -1,
              tag |-> "none", code |-> "none"]

\* the catch block of every listModels()
ListCatch(p, reply) ==
    [reply |-> reply.kind, outcome |-> "ProviderError", count |-> -1,
     tag |-> p, code |-> "MODELS_FETCH_ERROR"]

\* return <the array>.map(model => ...)
ListReturn(reply) ==
    [reply |-> reply.kind, outcome |-> "models", count |-> reply.count,
     tag |-> "none", code |-> "none"]

\* listModels() of adapter p when the round trip ends in reply; GroqProvider
\* initializes a missing client first, LMStudioProvider throws on an empty
\* list inside its own try block
listModels(p, reply, client, key) ==
    CASE p = "groq" ->
            IF (~client /\ ~key) \/ reply.kind = "error" THEN ListCatch(p, reply)
            ELSE ListReturn(reply)
      [] p = "ollama" ->
            IF reply.kind = "error" THEN ListCatch(p, reply)
            ELSE ListReturn(reply)
      [] p = "lmstudio" ->
            IF reply.kind = "error" \/ reply.count = 0 THEN ListCatch(p, reply)
            ELSE ListReturn(reply)

\* how the round trip of getStatus() ends: no connection ("network"), the 5 s
\* abort ("timeout"), a status that is not ok ("notok"), a body that cannot
\* be read as the expected JSON ("badbody"), or an answer that lists
\* 0..MaxModels models
StatusReply ==
    [kind : {"network", "timeout", "notok", "badbody"}, count : {-1}]
        \cup [kind : {"models"}, count : 0..MaxModels]

\* the result of one adapter call: how it ended and, for getStatus(), the
\* fields of the ProviderStatus it returned
Result(outcome, code, available, connected, error, modelsLoaded) ==
    [outcome |-> outcome, code |-> code, available |-> available,
     connected |-> connected, error |-> error, modelsLoaded |-> modelsLoaded]

Returned == Result("ok", "none", FALSE, FALSE, "none", -1)

Thrown(name) == Result("throw", name, FALSE, FALSE, "none", -1)

\* the try block of getStatus(): the status it returns, or what it throws
StatusTry(p, reply, key) ==
    CASE p = "groq" ->
            IF ~key THEN Result("status", "none", FALSE, FALSE, "API key not configured", -1)
            ELSE IF reply.kind = "models"
                 THEN Result("status", "none", TRUE, TRUE, "none", -1)
                 ELSE Thrown(IF reply.kind = "timeout" THEN "AbortError" ELSE "Error")
      [] p \in {"ollama", "lmstudio"} ->
            IF reply.kind = "notok"
            THEN Result("status", "none", FALSE, FALSE, "HTTP status", -1)
            ELSE IF reply.kind = "models"
                 THEN Result("status", "none", TRUE, TRUE, "none",
                             IF p = "lmstudio" THEN reply.count ELSE -1)
                 ELSE Thrown(IF reply.kind = "timeout" THEN "AbortError" ELSE "Error")

\* the catch block of getStatus()
StatusCatch(p, name) ==
    IF p = "groq" THEN Result("status", "none", TRUE, FALSE, "error.message", -1)
    ELSE IF name = "AbortError"
         THEN Result("status", "none", FALSE, FALSE, "Connection timeout", -1)
         ELSE Result("status", "none", FALSE, FALSE, "error.message", -1)

\* a getStatus() whose try block has no catch
getStatusNoCatch(p, reply, key) ==
    StatusTry(p, reply, key)

\* getStatus() of adapter p when its round trip ends in reply
getStatus(p, reply, key) ==
    LET try == StatusTry(p, reply, key)
    IN  IF try.outcome = "throw" THEN StatusCatch(p, try.code) ELSE try

\* initialize() of adapter p; the local adapters ask getStatus()
initialize(p, reply, key) ==
    LET status == getStatus(p, reply, key)
    IN  CASE p = "groq" -> IF ~key THEN Thrown("API_KEY_MISSING") ELSE Returned
          [] p = "ollama" ->
                IF status.outcome = "throw" THEN status
                ELSE IF ~status.connected THEN Thrown("CONNECTION_ERROR") ELSE Returned
          [] p = "lmstudio" ->
                IF status.outcome = "throw" THEN status
                ELSE IF ~status.connected THEN Thrown("CONNECTION_ERROR")
                ELSE IF status.modelsLoaded = 0 THEN Thrown("NO_MODELS_LOADED")
                ELSE Returned

\* a cleanup() that fails on an adapter that holds no client
cleanupNeedsClient(p, client) ==
    IF client THEN Returned ELSE Thrown("Error")

\* cleanup() of adapter p
cleanup(p, client) ==
    Returned

NoCall == [m |-> "none", reply |-> "none", count |-> -1, res |-> Returned,
           client |-> FALSE]

ListInit ==
    /\ MgrInit /\ GroqInit /\ DetIdle /\ ChatIdle /\ RegIdle
    /\ handler = <<>>
    /\ listed = [p \in ProviderName |-> NoListing]
    /\ called = [p |-> "none", prev |-> NoCall, cur |-> NoCall]
    /\ found = <<>>
    /\ switching = <<>>
    /\ guidance = <<>>
    /\ modelCommand = <<>> /\ watcher = <<>> /\ session = <<>>

\* await provider.listModels()
ListModels ==
    /\ \E p \in ProviderName, reply \in ListReply :
          /\ listed' = [listed EXCEPT ![p] = listModels(p, reply, groqClient, groqKey)]
          /\ groqClient' = ClientAfterInitialize(p, groqClient, groqKey)
    /\ called' = [p |-> "none", prev |-> NoCall, cur |-> NoCall]
    /\ UNCHANGED <<mgrVars, groqKey, detVars, chatVars, regVars, intVars, found, toolVars>>

\* the call m on adapter p, with its round trip ending in reply, has given
\* res and left GroqProvider.client as client; the listings are no longer
\* under observation
Called(p, m, reply, res, client) ==
    /\ called' = [p |-> p,
                  prev |-> IF called.p = p THEN called.cur ELSE NoCall,
                  cur |-> [m |-> m, reply |-> reply.kind, count |-> reply.count,
                           res |-> res, client |-> client]]
    /\ groqClient' = client
    /\ listed' = [q \in ProviderName |-> NoListing]
    /\ UNCHANGED <<mgrVars, groqKey, detVars, chatVars, regVars, intVars, found, toolVars>>

\* await provider.getStatus()
GetStatus ==
    \E p \in ProviderName, reply \in StatusReply :
        Called(p, "getStatus", reply, getStatus(p, reply, groqKey),
               ClientAfterGetStatus(p, groqClient, groqKey))

\* await provider.initialize()
Initialize ==
    \E p \in ProviderName, reply \in StatusReply :
        Called(p, "initialize", reply, initialize(p, reply, groqKey),
               ClientAfterInitialize(p, groqClient, groqKey))

\* await provider.cleanup()
Cleanup ==
    \E p \in ProviderName :
        Called(p, "cleanup", [kind |-> "none", count |-> -1], cleanup(p, groqClient),
               ClientAfterCleanup(p, groqClient))

ListNext ==
    \/ ListModels
    \/ GetStatus
    \/ Initialize
    \/ Cleanup

ListSpec == ListInit /\ [][ListNext]_vars

\* C20: a listModels() whose round trip fails, or whose backend reports zero
\* models, fails with a ProviderError tagged with that backend; a list that
\* is returned is never empty.
C20_ListModelsNeverEmpty ==
    \A p \in ProviderName :
        /\ (listed[p].reply = "error" \/ (listed[p].reply = "models" /\ listed[p].count = 0))
              => (listed[p].outcome = "ProviderError" /\ listed[p].tag = p)
        /\ listed[p].outcome = "models" => listed[p].count > 0

\* C34: a listModels() of LM Studio whose round trip succeeds with a list of
\* zero models fails with the code NO_MODELS_LOADED, and one whose round trip
\* fails with the code MODELS_FETCH_ERROR.
C34_EmptyListIsNoModelsLoaded ==
    /\ (listed # <<>> /\ listed["lmstudio"].reply = "models"
            /\ listed["lmstudio"].outcome = "ProviderError")
          => listed["lmstudio"].code = "NO_MODELS_LOADED"
    /\ (listed # <<>> /\ listed["lmstudio"].reply = "error")
          => listed["lmstudio"].code = "MODELS_FETCH_ERROR"

\* C21: no getStatus() of any adapter raises; one whose round trip ends in a
\* transport error, a timeout, a response that is not ok or an unreadable
\* body, or that finds no credential, returns connected = false with an
\* error message.
C21_GetStatusNeverRaises ==
    called.cur.m = "getStatus"
        => /\ called.cur.res.outcome = "status"
           /\ (called.cur.reply # "models" \/ (called.p = "groq" /\ ~groqKey))
                 => (~called.cur.res.connected /\ called.cur.res.error # "none")

\* every adapter has answered a failed round trip, each kind of failure has
\* happened, and the cloud adapter has been asked without a credential
C21_Witness ==
    /\ called.cur.m = "getStatus"
    /\ called.prev.m = "getStatus"
    /\ called.cur.reply \in {"network", "timeout", "badbody"}
    /\ called.prev.reply = "models"
    /\ called.prev.res.connected = (called.p # "groq" \/ groqKey)

\* C29: an initialize() or a cleanup() made right after the same call on the
\* same adapter, the backend answering the same, ends as the first one did,
\* and whatever the backend answers it leaves the adapter in the state the
\* first one left; every cleanup() succeeds, also on an adapter that was
\* never initialized.
C29_InitializeCleanupIdempotent ==
    /\ (called.cur.m \in {"initialize", "cleanup"} /\ called.prev.m = called.cur.m)
          => /\ called.cur.client = called.prev.client
             /\ (called.cur.reply = called.prev.reply /\ called.cur.count = called.prev.count)
                   => called.cur.res = called.prev.res
    /\ called.cur.m = "cleanup" => called.cur.res = Returned

\* the cloud adapter has been initialized twice in a row with a credential
\* and holds a client
C29_Witness ==
    /\ called.p = "groq"
    /\ groqKey
    /\ called.prev.m = "initialize"
    /\ called.cur.m = "initialize"
    /\ called.cur.res = Returned
    /\ called.cur.client

----------------------------------------------------------------------------
(* findModels(query) with the text of the models.  A text is a sequence of  *)
(* characters; the ids, descriptions and queries are written with one       *)
(* letter in its two cases.  Every adapter gives a model its id as its      *)
(* name, and a description that may be missing.                             *)

Text == UNION {[1..n -> {"a", "A"}] : n \in 0..MaxText}

\* String.prototype.toLowerCase()
toLowerCase(text) == [i \in 1..Len(text) |-> IF text[i] = "A" THEN "a" ELSE text[i]]

\* String.prototype.includes(sub)
includes(text, sub) ==
    \E i \in 0..(Len(text) - Len(sub)) : \A j \in 1..Len(sub) : text[i + j] = sub[j]

\* what the detection pass of one call finds: for each backend no models
\* (not connected, listModels() failed, or an empty list) or one model
Listing ==
    [ProviderName ->
        {<<>>} \cup {<<[id |-> id, name |-> id, description |-> d]>> :
                        id \in Text \ {<<>>}, d \in {t \in Text : Len(t) <= 1}}]

\* getAllModels(): the models of every detection entry, each with the name
\* of its backend, in detection order
AllModels(listing) ==
    LET tagged(p) == [i \in 1..Len(listing[p]) |->
                         [id |-> listing[p][i].id, name |-> listing[p][i].name,
                          description |-> listing[p][i].description, provider |-> p]]
    IN  tagged("groq") \o tagged("ollama") \o tagged("lmstudio")

\* a filter that compares the fields as they are written
findModelsCaseSensitive(allModels, query) ==
    SelectSeq(allModels, LAMBDA model : includes(model.id, toLowerCase(query)))

\* findModels(query): the filter on the result of getAllModels()
findModels(allModels, query) ==
    LET lowerQuery == toLowerCase(query)
        name(p) == CASE p = "groq" -> <<"g", "r", "o", "q">>
                     [] p = "ollama" -> <<"o", "l", "l", "a", "m", "a">>
                     [] p = "lmstudio" -> <<"l", "m", "s", "t", "u", "d", "i", "o">>
    IN  SelectSeq(allModels,
                  LAMBDA model :
                     \/ includes(toLowerCase(model.id), lowerQuery)
                     \/ includes(toLowerCase(model.name), lowerQuery)
                     \/ (model.description # <<>>
                            /\ includes(toLowerCase(model.description), lowerQuery))
                     \/ includes(toLowerCase(name(model.provider)), lowerQuery))

\* await manager.findModels(query), the detection pass finding `listing`
FindModelsByText ==
    /\ found = <<>>
    /\ \E query \in Text, listing \in Listing :
          \E allModels \in {AllModels(listing)} :
             found' = [query |-> query, all |-> allModels,
                       result |-> findModels(allModels, query)]
    /\ UNCHANGED <<mgrVars, groqVars, detVars, chatVars, regVars, intVars, listed, called, toolVars>>

FindSpec == Init /\ [][FindModelsByText]_vars

\* C26: the result of findModels(q) is the list of the models of
\* getAllModels(), in their order, that have q in their id, name, description
\* or backend name at some place, letter by letter without regard to case;
\* for the empty q it is the whole list.
C26_FindModelsFilters ==
    found # <<>>
        => LET same(c, d) == c = d \/ {c, d} = {"a", "A"}
               has(text, q) == \E i \in 0..(Len(text) - Len(q)) :
                                  \A j \in 1..Len(q) : same(text[i + j], q[j])
               \* of the letters of a query, "ollama" has one "a" at a time
               backend(p) == IF p = "ollama" THEN <<"a">> ELSE <<>>
               wanted(m) == \/ has(m.id, found.query)
                            \/ has(m.name, found.query)
                            \/ has(m.description, found.query)
                            \/ has(backend(m.provider), found.query)
           IN  /\ found.result = SelectSeq(found.all, wanted)
               /\ found.query = <<>> => found.result = found.all

\* a query written in upper case has kept the one model of three whose id
\* has it in lower case
C26_Witness ==
    /\ found # <<>>
    /\ found.query = <<"A", "A">>
    /\ Len(found.all) = 3
    /\ Len(found.result) = 1
    /\ found.result[1].id = <<"a", "a">>

----------------------------------------------------------------------------
(* Two switch operations of one ProviderManager that overlap.  Each is an   *)
(* async function: it runs from one await to the next without interruption, *)
(* and at an await the other one may run.  `switching` is [active, initial, *)
(* ever, cleaned, proc]: activeProvider now, before the two operations and  *)
(* at any time, the adapters that have had a cleanup() call, and for each   *)
(* of the two operations                                                    *)
(* [kind, name, pc, currentName, rest, ret]: its target or candidate, the   *)
(* await it is suspended at, the candidates still to try, and its result.   *)

OverlapInit ==
    /\ MgrInit /\ GroqInit /\ DetIdle /\ ChatIdle /\ RegIdle
    /\ handler = <<>> /\ listed = <<>> /\ called = <<>> /\ found = <<>>
    /\ guidance = <<>>
    /\ modelCommand = <<>> /\ watcher = <<>> /\ session = <<>>
    /\ \E active \in ProviderName \cup {"null"} :
       \E ops \in [1..2 -> {<<"autoSelectProvider", "none">>, <<"failover", "none">>}
                              \cup {<<"setActiveProvider", p>> : p \in ProviderName}] :
          switching = [active |-> active, initial |-> active,
                       ever |-> {active} \ {"null"}, cleaned |-> {},
                       proc |-> [i \in 1..2 |->
                                   [kind |-> ops[i][1], name |-> ops[i][2], pc |-> "start",
                                    currentName |-> "undefined", rest |-> <<>>,
                                    ret |-> "none"]]]

\* setActiveProvider(pr.name) from the await it is suspended at to its next
\* await, to its return (pc "returned") or to its throw (pc "threw")
setActiveProviderStep(sw, pr, connected, initOk) ==
    CASE pr.pc = "start" ->
            [active |-> sw.active, cleaned |-> sw.cleaned,
             pr |-> [pr EXCEPT !.pc = "getStatus"]]
      [] pr.pc = "getStatus" ->
            IF ~connected
            THEN [active |-> sw.active, cleaned |-> sw.cleaned,
                  pr |-> [pr EXCEPT !.pc = "threw"]]
            ELSE IF sw.active # "null" /\ sw.active # pr.name
            THEN [active |-> sw.active, cleaned |-> sw.cleaned \cup {sw.active},
                  pr |-> [pr EXCEPT !.pc = "cleanup"]]
            ELSE [active |-> sw.active, cleaned |-> sw.cleaned,
                  pr |-> [pr EXCEPT !.pc = "initialize"]]
      [] pr.pc = "cleanup" ->
            [active |-> sw.active, cleaned |-> sw.cleaned,
             pr |-> [pr EXCEPT !.pc = "initialize"]]
      [] pr.pc = "initialize" ->
            IF initOk
            THEN [active |-> pr.name, cleaned |-> sw.cleaned,
                  pr |-> [pr EXCEPT !.pc = "returned"]]
            ELSE [active |-> sw.active, cleaned |-> sw.cleaned,
                  pr |-> [pr EXCEPT !.pc = "threw"]]

\* the names of the configurations of a candidate list that the detection
\* pass found available and connected
Candidates(configs, eligible) ==
    LET kept == SelectSeq(configs, LAMBDA config : config.name \in eligible)
    IN  [k \in 1..Len(kept) |-> kept[k].name]

\* the loop of autoSelectProvider() and failover() moving to its next
\* candidate, or returning null when there is none
NextCandidate(pr, rest, pc) ==
    IF rest = <<>>
    THEN [pr EXCEPT !.pc = "done", !.ret = "null", !.rest = <<>>]
    ELSE [pr EXCEPT !.pc = pc, !.name = Head(rest), !.rest = Tail(rest)]

\* the setActiveProvider(name) of operation i goes on
SetActiveResumes(i) ==
    /\ switching # <<>>
    /\ switching.proc[i].kind = "setActiveProvider"
    /\ switching.proc[i].pc # "done"
    /\ \E connected \in BOOLEAN, initOk \in BOOLEAN :
       \E r \in {setActiveProviderStep(switching, switching.proc[i], connected, initOk)} :
          switching' = [switching EXCEPT
                !.active = r.active,
                !.ever = @ \cup ({r.active} \ {"null"}),
                !.cleaned = r.cleaned,
                !.proc[i] = CASE r.pr.pc = "returned" ->
                                    [r.pr EXCEPT !.pc = "done", !.ret = "void"]
                              [] r.pr.pc = "threw" ->
                                    [r.pr EXCEPT !.pc = "done", !.ret = "throw"]
                              [] OTHER -> r.pr]
    /\ UNCHANGED <<mgrVars, groqVars, detVars, chatVars, regVars, intVars, listVars,
                   guidance, modelCommand, watcher, session>>

\* the autoSelectProvider() of operation i goes on
AutoSelectResumes(i) ==
    /\ switching # <<>>
    /\ switching.proc[i].kind = "autoSelectProvider"
    /\ switching.proc[i].pc # "done"
    /\ LET pr == switching.proc[i]
       IN  \E eligible \in SUBSET ProviderName, initOk \in BOOLEAN :
              switching' =
                 CASE pr.pc = "start" ->
                         [switching EXCEPT !.proc[i].pc = "detectProviders"]
                   [] pr.pc = "detectProviders" ->
                         [switching EXCEPT !.proc[i] =
                             NextCandidate(pr, Candidates(sortedConfigs(providerConfigs),
                                                          eligible), "initialize")]
                   [] pr.pc = "initialize" ->
                         IF initOk
                         THEN [switching EXCEPT
                                  !.active = pr.name,
                                  !.ever = @ \cup {pr.name},
                                  !.proc[i] = [pr EXCEPT !.pc = "done", !.ret = pr.name]]
                         ELSE [switching EXCEPT
                                  !.proc[i] = NextCandidate(pr, pr.rest, "initialize")]
    /\ UNCHANGED <<mgrVars, groqVars, detVars, chatVars, regVars, intVars, listVars,
                   guidance, modelCommand, watcher, session>>

\* the failover() of operation i goes on
FailoverResumes(i) ==
    /\ switching # <<>>
    /\ switching.proc[i].kind = "failover"
    /\ switching.proc[i].pc # "done"
    /\ LET pr == switching.proc[i]
       IN  \E eligible \in SUBSET ProviderName, connected \in BOOLEAN, initOk \in BOOLEAN :
              switching' =
                 CASE pr.pc = "start" ->
                         IF switching.active # "null"
                         THEN [switching EXCEPT
                                  !.cleaned = @ \cup {switching.active},
                                  !.proc[i] = [pr EXCEPT !.pc = "cleanupCurrent",
                                                         !.currentName = switching.active]]
                         ELSE [switching EXCEPT !.proc[i].pc = "detectProviders"]
                   [] pr.pc = "cleanupCurrent" ->
                         [switching EXCEPT !.active = "null",
                                           !.proc[i].pc = "detectProviders"]
                   [] pr.pc = "detectProviders" ->
                         [switching EXCEPT !.proc[i] =
                             NextCandidate(pr, Candidates(failoverConfigs(providerConfigs,
                                                                          pr.currentName),
                                                          eligible), "getStatus")]
                   [] pr.pc = "resolved" ->
                         [switching EXCEPT
                             !.proc[i] = [pr EXCEPT !.pc = "done", !.ret = switching.active]]
                   [] OTHER ->
                         LET r == setActiveProviderStep(switching, pr, connected, initOk)
                         IN  [switching EXCEPT
                                !.active = r.active,
                                !.ever = @ \cup ({r.active} \ {"null"}),
                                !.cleaned = r.cleaned,
                                !.proc[i] =
                                   CASE r.pr.pc = "returned" ->
                                           [r.pr EXCEPT !.pc = "resolved"]
                                     [] r.pr.pc = "threw" ->
                                           NextCandidate(r.pr, r.pr.rest, "getStatus")
                                     [] OTHER -> r.pr]
    /\ UNCHANGED <<mgrVars, groqVars, detVars, chatVars, regVars, intVars, listVars,
                   guidance, modelCommand, watcher, session>>

OverlapNext ==
    \E i \in 1..2 : SetActiveResumes(i) \/ AutoSelectResumes(i) \/ FailoverResumes(i)

OverlapSpec == OverlapInit /\ [][OverlapNext]_vars

\* C32: when two switch operations that may overlap have both ended, an
\* active backend that was not active before them is the target of one of
\* them, every adapter that was active at some time and is not active now
\* has had cleanup() called, and a failover() away from X has not returned X.
C32_OverlapKeepsSwitchesWhole ==
    (switching # <<>> /\ \A i \in 1..2 : switching.proc[i].pc = "done")
        => /\ switching.active \notin {"null", switching.initial}
                 => \E i \in 1..2 : /\ switching.proc[i].name = switching.active
                                    /\ switching.proc[i].ret \notin {"throw", "null"}
           /\ (switching.ever \ {switching.active}) \subseteq switching.cleaned
           /\ \A i \in 1..2 :
                 switching.proc[i].kind = "failover"
                    => switching.proc[i].ret # switching.proc[i].currentName

----------------------------------------------------------------------------
(* The catch block of OllamaProvider.chat(): the message of the             *)
(* ProviderError is chosen by the texts that error.message contains.  An    *)
(* error is known here by its kind (an AbortError, another Error, or a      *)
(* thrown value that is no Error) and by which of the texts its message     *)
(* contains.                                                                *)

Symptom == {"ECONNREFUSED", "model", "404", "failed to allocate", "Metal buffer",
            "llama runner process has terminated"}

\* the message thrown for an error of that kind whose message contains
\* exactly `contained` of the texts; an AbortError is thrown again as it is
errorMessage(kind, contained) ==
    IF kind = "AbortError" THEN "rethrown"
    ELSE IF kind # "Error" THEN "Ollama API request failed"
    ELSE IF "ECONNREFUSED" \in contained THEN "Cannot connect to Ollama"
    ELSE IF "model" \in contained THEN "Model not found"
    ELSE IF "404" \in contained THEN "API endpoint not found"
    ELSE IF "failed to allocate" \in contained \/ "Metal buffer" \in contained
         THEN "Model is too large for available GPU memory"
    ELSE IF "llama runner process has terminated" \in contained
         THEN "Model crashed during execution"
    ELSE "Ollama API request failed"

\* chat() of Ollama fails and its catch block runs
OllamaChatFails ==
    /\ guidance = <<>>
    /\ \E kind \in {"AbortError", "Error", "other"}, contained \in SUBSET Symptom :
          guidance' = [kind |-> kind, contained |-> contained,
                       message |-> errorMessage(kind, contained)]
    /\ UNCHANGED <<mgrVars, groqVars, detVars, chatVars, regVars, intVars, listVars,
                   switching, modelCommand, watcher, session>>

GuidanceSpec == Init /\ [][OllamaChatFails]_vars

\* C35: the ProviderError of a failed Ollama chat carries the GPU-memory
\* guidance when the error text has an out-of-memory symptom, and the crash
\* guidance when it has the runner's termination and no out-of-memory
\* symptom, whatever else the text contains.
C35_GuidanceMatchesSymptom ==
    (guidance # <<>> /\ guidance.kind = "Error")
        => LET oom == {"failed to allocate", "Metal buffer"} \cap guidance.contained # {}
           IN  /\ oom => guidance.message = "Model is too large for available GPU memory"
               /\ ("llama runner process has terminated" \in guidance.contained /\ ~oom)
                     => guidance.message = "Model crashed during execution"

----------------------------------------------------------------------------
(* The handler of the /model command.  handleProviderCommands calls it      *)
(* without awaiting it, so an invocation can arrive while an earlier one is *)
(* suspended at an await.  `modelCommand` is [isProcessingModelCommand,     *)
(* run]; run[i] is [pc, how, during, switchedProvider, setModel] of the     *)
(* i-th invocation: where it is ("pending" before it is made, the await it  *)
(* is suspended at, "returned"), how it ended, whether another one was      *)
(* suspended when it was made, and what it did to the agent.                *)

ModelCommandInit ==
    /\ MgrInit /\ GroqInit /\ DetIdle /\ ChatIdle /\ RegIdle
    /\ handler = <<>> /\ listed = <<>> /\ called = <<>> /\ found = <<>>
    /\ switching = <<>> /\ guidance = <<>> /\ watcher = <<>> /\ session = <<>>
    /\ modelCommand =
          [isProcessingModelCommand |-> FALSE,
           run |-> [i \in 1..MaxInvocations |->
                      [pc |-> "pending", how |-> "none", during |-> FALSE,
                       switchedProvider |-> FALSE, setModel |-> FALSE]]]

\* a handler whose early returns leave the try block without the finally
handlerReturnsNoFinally(mc, i, how) ==
    [mc EXCEPT !.run[i].pc = "returned", !.run[i].how = how,
               !.isProcessingModelCommand =
                   IF how \in {"switched", "selector"} THEN FALSE ELSE @]

\* the handler leaves its try block, by a return or after its catch: the
\* finally releases the flag
handlerReturns(mc, i, how) ==
    [mc EXCEPT !.run[i].pc = "returned", !.run[i].how = how,
               !.isProcessingModelCommand = FALSE]

Suspended(mc) == {i \in 1..MaxInvocations :
                    mc.run[i].pc \in {"listAllModels", "switchProvider", "setModel"}}

\* modelCommand.handler(context) is called: it returns at once when the flag
\* is set; otherwise it sets the flag and runs to its first await or, with no
\* agent or no model name, to its end
ModelCommandInvoked ==
    /\ modelCommand # <<>>
    /\ \E i \in 1..MaxInvocations :
          /\ modelCommand.run[i].pc = "pending"
          /\ \A j \in 1..(i - 1) : modelCommand.run[j].pc # "pending"
          /\ \E agent \in BOOLEAN, modelName \in BOOLEAN :
             \E mc \in {[modelCommand EXCEPT !.run[i].during = Suspended(modelCommand) # {}]} :
                modelCommand' =
                   IF mc.isProcessingModelCommand
                   THEN [mc EXCEPT !.run[i].pc = "returned", !.run[i].how = "skipped"]
                   ELSE IF ~agent
                   THEN handlerReturns([mc EXCEPT !.isProcessingModelCommand = TRUE],
                                       i, "noAgent")
                   ELSE IF ~modelName
                   THEN handlerReturns([mc EXCEPT !.isProcessingModelCommand = TRUE],
                                       i, "selector")
                   ELSE [mc EXCEPT !.isProcessingModelCommand = TRUE,
                                   !.run[i].pc = "listAllModels"]
    /\ UNCHANGED <<mgrVars, groqVars, detVars, chatVars, regVars, intVars, listVars,
                   switching, guidance, watcher, session>>

\* the call that invocation i awaits settles: listAllModels() gives the
\* model or not, switchProvider() succeeds or not, and each may throw
ModelCommandResumes ==
    /\ modelCommand # <<>>
    /\ \E i \in Suspended(modelCommand), result \in {"ok", "no", "throw"} :
          modelCommand' =
             CASE result = "throw" -> handlerReturns(modelCommand, i, "error")
               [] result = "no" /\ modelCommand.run[i].pc = "listAllModels" ->
                     handlerReturns(modelCommand, i, "notFound")
               [] result = "no" /\ modelCommand.run[i].pc = "switchProvider" ->
                     handlerReturns(modelCommand, i, "switchFailed")
               [] result = "ok" /\ modelCommand.run[i].pc = "listAllModels" ->
                     [modelCommand EXCEPT !.run[i].pc = "switchProvider"]
               [] result = "ok" /\ modelCommand.run[i].pc = "switchProvider" ->
                     [modelCommand EXCEPT !.run[i].pc = "setModel",
                                          !.run[i].switchedProvider = TRUE]
               [] OTHER ->
                     handlerReturns([modelCommand EXCEPT !.run[i].setModel = TRUE],
                                    i, "switched")
    /\ UNCHANGED <<mgrVars, groqVars, detVars, chatVars, regVars, intVars, listVars,
                   switching, guidance, watcher, session>>

ModelCommandSpec ==
    ModelCommandInit /\ [][ModelCommandInvoked \/ ModelCommandResumes]_vars

\* C37: at most one invocation of the /model handler is suspended at an
\* await; an invocation made while another is suspended returns without
\* having switched provider or model; the flag is set exactly while an
\* invocation is suspended, however the invocations before ended.
C37_OneModelCommandAtATime ==
    modelCommand # <<>>
        => /\ Cardinality(Suspended(modelCommand)) <= 1
           /\ \A i \in 1..MaxInvocations :
                 modelCommand.run[i].during
                    => /\ modelCommand.run[i].how = "skipped"
                       /\ ~modelCommand.run[i].switchedProvider
                       /\ ~modelCommand.run[i].setModel
           /\ modelCommand.isProcessingModelCommand <=> Suspended(modelCommand) # {}

\* an invocation was skipped while the first one was suspended; the first
\* ended in an error and a later one has switched the model
C37_Witness ==
    /\ modelCommand # <<>>
    /\ modelCommand.run[1].how = "error"
    /\ modelCommand.run[2].how = "skipped"
    /\ modelCommand.run[3].how = "switched"
    /\ ~modelCommand.isProcessingModelCommand

----------------------------------------------------------------------------
(* DevAutoWatcher.  `watcher` is [isBuilding, debounceTimeout, step,        *)
(* running, watching, stale, changes, builds, logged]: the two fields of    *)
(* the class, the child process the build waits for ("tsc", "link" or       *)
(* "none"), the number of builds in progress, whether chokidar is set up,   *)
(* whether a watched file has changed since the last start of a build, the  *)
(* numbers of changes seen and of builds started, and what the last build   *)
(* that ended has logged.  start() awaits the initial build before it sets  *)
(* the watcher up.                                                          *)

\* performBuild() up to its first await
performBuild(w) ==
    IF w.isBuilding THEN w
    ELSE [w EXCEPT !.isBuilding = TRUE, !.step = "tsc", !.running = @ + 1,
                   !.stale = FALSE, !.builds = @ + 1]

\* new DevAutoWatcher().start() up to the await of the initial build
WatcherInit ==
    /\ MgrInit /\ GroqInit /\ DetIdle /\ ChatIdle /\ RegIdle
    /\ handler = <<>> /\ listed = <<>> /\ called = <<>> /\ found = <<>>
    /\ switching = <<>> /\ guidance = <<>> /\ modelCommand = <<>>
    /\ session = <<>>
    /\ watcher = performBuild([isBuilding |-> FALSE, debounceTimeout |-> FALSE,
                               step |-> "none", running |-> 0, watching |-> FALSE,
                               stale |-> FALSE, changes |-> 0, builds |-> 0,
                               logged |-> "none"])

\* chokidar reports add, change or unlink of a watched file: triggerBuild()
FileChanges ==
    /\ watcher # <<>>
    /\ watcher.watching
    /\ watcher.changes < MaxChanges
    /\ watcher' = [watcher EXCEPT !.debounceTimeout = TRUE, !.stale = TRUE,
                                  !.changes = @ + 1]
    /\ UNCHANGED <<mgrVars, groqVars, detVars, chatVars, regVars, intVars, listVars,
                   switching, guidance, modelCommand, session>>

\* the debounce timer fires 300 ms after the last change: performBuild()
DebounceFires ==
    /\ watcher # <<>>
    /\ watcher.debounceTimeout
    /\ watcher' = performBuild([watcher EXCEPT !.debounceTimeout = FALSE])
    /\ UNCHANGED <<mgrVars, groqVars, detVars, chatVars, regVars, intVars, listVars,
                   switching, guidance, modelCommand, session>>

\* the child process of the build closes: after a successful tsc comes npm
\* link, otherwise the build ends and the finally clears isBuilding; the
\* initial build is followed by the setup of the watcher
ChildCloses ==
    /\ watcher # <<>>
    /\ watcher.step # "none"
    /\ \E success \in BOOLEAN :
          watcher' = IF watcher.step = "tsc" /\ success
                     THEN [watcher EXCEPT !.step = "link"]
                     ELSE [watcher EXCEPT
                              !.step = "none", !.isBuilding = FALSE,
                              !.running = @ - 1, !.watching = TRUE,
                              !.logged = IF success THEN "completed"
                                         ELSE IF watcher.step = "tsc" THEN "compilation failed"
                                         ELSE "linking failed"]
    /\ UNCHANGED <<mgrVars, groqVars, detVars, chatVars, regVars, intVars, listVars,
                   switching, guidance, modelCommand, session>>

\* timers that are due fire and child processes end; files need not change
WatcherSpec ==
    /\ WatcherInit
    /\ [][FileChanges \/ DebounceFires \/ ChildCloses]_vars
    /\ WF_vars(DebounceFires)
    /\ WF_vars(ChildCloses)

\* C38: every change of a watched file is followed by the start of a build,
\* and at most one build runs at a time.
C38_EveryChangeRebuilt ==
    /\ (watcher.stale ~> ~watcher.stale)
    /\ [](watcher.running <= 1)

----------------------------------------------------------------------------
(* The expiry of the saved session.  The age of the session is the time     *)
(* from lastSession.timestamp to now, counted here in whole minutes; the    *)
(* code computes it in hours as a fraction.                                 *)

\* ConfigManager.shouldRestoreSession(): hoursDiff < 24
shouldRestoreSession(exists, minutes) == exists /\ minutes < 24 * 60

\* the willRestore of /session status: Math.round(hoursDiff) < 24, which
\* rounds a half up
willRestore(minutes) == ((minutes + 30) \div 60) < 24

\* /session status with a saved session of that age, or with none
SessionStatus ==
    /\ session = <<>>
    /\ \E exists \in BOOLEAN, minutes \in 0..MaxAge :
          session' = [exists |-> exists, minutes |-> minutes,
                      shouldRestore |-> shouldRestoreSession(exists, minutes),
                      autoRestore |-> IF ~exists THEN "Not available"
                                      ELSE IF willRestore(minutes) THEN "Yes"
                                      ELSE "No (expired)"]
    /\ UNCHANGED <<mgrVars, groqVars, detVars, chatVars, regVars, intVars, listVars,
                   switching, guidance, modelCommand, watcher>>

RestoreSpec == Init /\ [][SessionStatus]_vars

\* C39: shouldRestoreSession() is true exactly when a session is saved and
\* is less than 24 hours old, and /session status shows "Yes" for a saved
\* session exactly when shouldRestoreSession() is true.
C39_ExpiryAgrees ==
    session # <<>>
        => /\ session.shouldRestore <=> (session.exists /\ session.minutes < 1440)
           /\ session.exists => (session.autoRestore = "Yes" <=> session.shouldRestore)

====
